---- MODULE Spec2Model ----
(***************************************************************************)
(* A model of the tabular aggregation pipeline of data_analysis.py and of  *)
(* the value formatters of the two dashboards.                             *)
(*                                                                         *)
(* A table (DataFrame) is a record [cols, rows]: the column names in       *)
(* order, and the rows as functions from column name to cell.  A numeric   *)
(* cell is a float: a rational, a NaN (the null of a numeric column) or an *)
(* infinity.  Arithmetic is exact on the rationals (binary rounding is not *)
(* modelled) and follows IEEE-754 on the special values, as numpy does     *)
(* with its warnings silenced.  Key columns (sku, raw material) hold       *)
(* strings, whose null is NULL; every other column is numeric.             *)
(***************************************************************************)
EXTENDS Integers, Sequences, FiniteSets, TLC

VARIABLES
    order_df,   \* the table handed to a transform
    breaks,     \* the threshold list handed to qty_break_discounts
    value,      \* the metric handed to a formatter
    window,     \* the window size handed to moving_avg_volume
    freq,       \* the period granularity handed to churn_report
    op,         \* the function called, "none" before the call
    local_df,   \* the transform's working copy (df = order_df.copy())
    bins,       \* the bin edges qty_break_discounts builds
    result,     \* the table returned
    text,       \* the text a formatter returned
    raised,     \* the exception raised, "" when the call returned
    product_df,       \* gradio_dash.py: the module-level products table
    invoice_df,       \* gradio_dash.py: the module-level invoices table
    materials_df,     \* gradio_dash.py: the module-level materials table
    kpis,             \* gradio_dash.py: the module-level KPI dictionary
    categories,       \* the value of the "Product Categories" dropdown
    packaging_types,  \* the value of the "Packaging Types" dropdown
    royalty_filter,   \* the value of the "Royalty Products" radio
    events,           \* the number of events the page has sent (the load first)
    calls,            \* the callback invocations queued or running
    returned,         \* the callback invocation that returned last
    outputs           \* the values of the output components

\* the state of the transforms and the state of the Gradio dashboard
analysis_vars == <<breaks, value, window, freq, op, local_df, bins, result, text, raised>>

dash_vars == <<product_df, invoice_df, materials_df, kpis, categories, packaging_types,
               royalty_filter, events, calls, returned, outputs>>

vars == <<order_df, analysis_vars, dash_vars>>

(***************************************************************************)
(* Bounds of the model.                                                    *)
(***************************************************************************)
MaxRows == 2
MaxBreaks == 2
MaxSeries == 3
MaxWindow == 2
MaxChanges == 1
MaxPending == 1

\* the defaults of the parameters window and freq
DefaultWindow == 4
DefaultFreq == "Q"

(***************************************************************************)
(* Floats.                                                                 *)
(***************************************************************************)
NaN == [k |-> "nan", n |-> 0, d |-> 1]
PosInf == [k |-> "inf", n |-> 1, d |-> 1]
NegInf == [k |-> "inf", n |-> -1, d |-> 1]

Abs(i) == IF i < 0 THEN -i ELSE i

RECURSIVE Gcd(_, _)
Gcd(a, b) == IF b = 0 THEN a ELSE Gcd(b, a % b)

\* the rational n/d (d # 0) in lowest terms with a positive denominator
Rat(n, d) ==
    LET g == Gcd(Abs(n), Abs(d))
        s == IF d < 0 THEN -1 ELSE 1
    IN [k |-> "num", n |-> s * (n \div g), d |-> s * (d \div g)]

Num(i) == [k |-> "num", n |-> i, d |-> 1]

isna(v) == v.k = "nan"
IsInf(v) == v.k = "inf"
IsFinite(v) == v.k = "num"
IsZero(v) == v.k = "num" /\ v.n = 0
Sign(v) == IF v.n > 0 THEN 1 ELSE IF v.n < 0 THEN -1 ELSE 0
InfOfSign(s) == IF s > 0 THEN PosInf ELSE NegInf

Neg(a) == IF isna(a) THEN NaN ELSE [a EXCEPT !.n = -a.n]

Add(a, b) ==
    IF isna(a) \/ isna(b) THEN NaN
    ELSE IF IsInf(a) /\ IsInf(b) THEN (IF a.n = b.n THEN a ELSE NaN)
    ELSE IF IsInf(a) THEN a
    ELSE IF IsInf(b) THEN b
    ELSE Rat(a.n * b.d + b.n * a.d, a.d * b.d)

Sub(a, b) == Add(a, Neg(b))

Mul(a, b) ==
    IF isna(a) \/ isna(b) THEN NaN
    ELSE IF IsInf(a) \/ IsInf(b)
         THEN (IF Sign(a) * Sign(b) = 0 THEN NaN ELSE InfOfSign(Sign(a) * Sign(b)))
    ELSE Rat(a.n * b.n, a.d * b.d)

\* float true division: x/0 is +-inf for x # 0 and NaN for x = 0, no exception
TrueDiv(a, b) ==
    IF isna(a) \/ isna(b) THEN NaN
    ELSE IF IsInf(a) /\ IsInf(b) THEN NaN
    ELSE IF IsInf(a) THEN (IF Sign(b) < 0 THEN Neg(a) ELSE a)
    ELSE IF IsInf(b) THEN Num(0)
    ELSE IF b.n = 0 THEN (IF a.n = 0 THEN NaN ELSE InfOfSign(Sign(a)))
    ELSE Rat(a.n * b.d, a.d * b.n)

\* a < b on floats; every comparison with a NaN is false
Lt(a, b) ==
    IF isna(a) \/ isna(b) THEN FALSE
    ELSE IF IsInf(a) THEN a.n < 0 /\ ~(IsInf(b) /\ b.n < 0)
    ELSE IF IsInf(b) THEN b.n > 0
    ELSE a.n * b.d < b.n * a.d

Le(a, b) == ~isna(a) /\ ~isna(b) /\ ~Lt(b, a)

(***************************************************************************)
(* Tables.                                                                 *)
(***************************************************************************)
NULL == "NULL"

DataFrame(cols, rows) == [cols |-> cols, rows |-> rows]

Range(s) == {s[i] : i \in DOMAIN s}

HasColumns(df, names) == names \subseteq Range(df.cols)

\* the order of the key values (the sort order of a groupby output)
KeyRank(k) == CASE k = "A" -> 1 [] k = "B" -> 2 [] OTHER -> 3

RECURSIVE SortKeys(_)
SortKeys(S) ==
    IF S = {} THEN <<>>
    ELSE LET m == CHOOSE x \in S : \A y \in S : KeyRank(x) <= KeyRank(y)
         IN <<m>> \o SortKeys(S \ {m})

\* a sum that lets a null poison the total (skipna=False)
RECURSIVE SumSeqPropagate(_)
SumSeqPropagate(s) ==
    IF s = <<>> THEN Num(0) ELSE Add(Head(s), SumSeqPropagate(Tail(s)))

\* Series.sum(): nulls are skipped, the sum of nothing is 0
RECURSIVE SumSeq(_)
SumSeq(s) ==
    IF s = <<>> THEN Num(0)
    ELSE IF isna(Head(s)) THEN SumSeq(Tail(s))
    ELSE Add(Head(s), SumSeq(Tail(s)))

Column(rows, col) == [i \in DOMAIN rows |-> rows[i][col]]

\* a groupby that yields a group for every known key value, present or not
GroupKeysAllCategories(df, key) == SortKeys({"A", "B"})

\* a groupby that keeps one entry per input row (a transform, not a reduction)
RECURSIVE KeysPerRow(_, _)
KeysPerRow(rows, key) ==
    IF rows = <<>> THEN <<>>
    ELSE IF Head(rows)[key] = NULL THEN KeysPerRow(Tail(rows), key)
    ELSE <<Head(rows)[key]>> \o KeysPerRow(Tail(rows), key)

GroupKeysPerRow(df, key) == KeysPerRow(df.rows, key)

\* a groupby that keeps the null key as a group of its own (dropna=False)
GroupKeysKeepNull(df, key) == SortKeys({df.rows[i][key] : i \in DOMAIN df.rows})

\* DataFrame.groupby(key): the distinct non-null keys (dropna=True), sorted (sort=True)
GroupKeys(df, key) == SortKeys({df.rows[i][key] : i \in DOMAIN df.rows} \ {NULL})

\* the rows of one group, in input order
GroupRows(df, key, k) == SelectSeq(df.rows, LAMBDA r : r[key] = k)

\* a distinct count that counts null as a value (dropna=False)
nunique_keepna(s) == Cardinality({s[i] : i \in DOMAIN s})

\* a count of the raw rows instead of the distinct values
nunique_as_size(s) == Len(s)

\* Series.nunique(): the number of distinct non-null values (dropna=True)
nunique(s) == Cardinality({s[i] : i \in DOMAIN s} \ {NaN})

(***************************************************************************)
(* The transforms of data_analysis.py.  Each is defined for a table that   *)
(* has the columns it is given; the actions below raise KeyError otherwise.*)
(***************************************************************************)
sales_by_product(df, sku_col, qty_col, vol_col) ==
    LET keys == GroupKeys(df, sku_col)
    IN DataFrame(<<sku_col, "total_units", "total_volume">>,
         [i \in 1..Len(keys) |->
            LET g == GroupRows(df, sku_col, keys[i])
            IN (sku_col :> keys[i])
               @@ ("total_units" :> SumSeq(Column(g, qty_col)))
               @@ ("total_volume" :> SumSeq(Column(g, vol_col)))])

order_counts(df, sku_col, order_id_col) ==
    LET keys == GroupKeys(df, sku_col)
    IN DataFrame(<<sku_col, "order_count">>,
         [i \in 1..Len(keys) |->
            LET g == GroupRows(df, sku_col, keys[i])
            IN (sku_col :> keys[i])
               @@ ("order_count" :> nunique(Column(g, order_id_col)))])

\* the mean of the per-row prices instead of the ratio of the group sums
avg_sales_price_of_rows(df, sku_col, rev_col, qty_col) ==
    LET keys == GroupKeys(df, sku_col)
    IN DataFrame(<<sku_col, "avg_sales_price">>,
         [i \in 1..Len(keys) |->
            LET g == GroupRows(df, sku_col, keys[i])
                prices == [j \in DOMAIN g |-> TrueDiv(g[j][rev_col], g[j][qty_col])]
            IN (sku_col :> keys[i])
               @@ ("avg_sales_price" :>
                     TrueDiv(SumSeq(prices),
                             Num(Len(SelectSeq(prices, LAMBDA v : ~isna(v))))))])

avg_sales_price(df, sku_col, rev_col, qty_col) ==
    LET keys == GroupKeys(df, sku_col)
    IN DataFrame(<<sku_col, "avg_sales_price">>,
         [i \in 1..Len(keys) |->
            LET g == GroupRows(df, sku_col, keys[i])
                total_revenue == SumSeq(Column(g, rev_col))
                total_units == SumSeq(Column(g, qty_col))
            IN (sku_col :> keys[i])
               @@ ("avg_sales_price" :> TrueDiv(total_revenue, total_units))])

avg_margin_by_product(df, sku_col, revenue_col, cost_col) ==
    LET keys == GroupKeys(df, sku_col)
    IN DataFrame(<<sku_col, "avg_margin_pct", "avg_margin_abs">>,
         [i \in 1..Len(keys) |->
            LET g == GroupRows(df, sku_col, keys[i])
                total_rev == SumSeq(Column(g, revenue_col))
                total_cost == SumSeq(Column(g, cost_col))
                avg_margin_abs == Sub(total_rev, total_cost)
            IN (sku_col :> keys[i])
               @@ ("avg_margin_pct" :> Mul(TrueDiv(avg_margin_abs, total_rev), Num(100)))
               @@ ("avg_margin_abs" :> avg_margin_abs)])

cogs_by_product(df, sku_col, cost_col) ==
    LET keys == GroupKeys(df, sku_col)
    IN DataFrame(<<sku_col, "total_cogs">>,
         [i \in 1..Len(keys) |->
            LET g == GroupRows(df, sku_col, keys[i])
            IN (sku_col :> keys[i])
               @@ ("total_cogs" :> SumSeq(Column(g, cost_col)))])

cogs_breakdown_by_material(df, raw_material_col, cogs_subtotal_col) ==
    LET keys == GroupKeys(df, raw_material_col)
    IN DataFrame(<<"raw_material", "total_material_cogs">>,
         [i \in 1..Len(keys) |->
            LET g == GroupRows(df, raw_material_col, keys[i])
            IN ("raw_material" :> keys[i])
               @@ ("total_material_cogs" :> SumSeq(Column(g, cogs_subtotal_col)))])

\* the line-level discount (list_price - unit_price) / list_price
discount_pct(row, list_price_col, unit_price_col) ==
    TrueDiv(Sub(row[list_price_col], row[unit_price_col]), row[list_price_col])

discounts_by_order(df, list_price_col, unit_price_col, order_id_col) ==
    DataFrame(<<order_id_col, "discount_pct">>,
        [i \in DOMAIN df.rows |->
            (order_id_col :> df.rows[i][order_id_col])
            @@ ("discount_pct" :> discount_pct(df.rows[i], list_price_col, unit_price_col))])

\* Series.max(): the largest non-null value, NaN when there is none
SeriesMax(s) ==
    LET vals == {s[i] : i \in DOMAIN s} \ {NaN}
    IN IF vals = {} THEN NaN ELSE CHOOSE m \in vals : \A v \in vals : Le(v, m)

\* the first value of the group instead of its mean
SeriesFirst(s) ==
    LET vals == SelectSeq(s, LAMBDA v : ~isna(v))
    IN IF vals = <<>> THEN NaN ELSE vals[1]

\* Series.mean(): the mean of the non-null values, NaN when there is none
SeriesMean(s) ==
    LET vals == SelectSeq(s, LAMBDA v : ~isna(v))
    IN TrueDiv(SumSeq(vals), Num(Len(vals)))

\* bins = [0] + breaks + [df[qty_col].max() + 1]
BinEdges(df, qty_col, thresholds) ==
    <<Num(0)>> \o [i \in DOMAIN thresholds |-> Num(thresholds[i])]
               \o <<Add(SeriesMax(Column(df.rows, qty_col)), Num(1))>>

\* pd.cut's checks of explicit bin edges.  The monotonicity check is
\* (np.diff(bins) < 0).any() in older releases of the library, which lets a
\* NaN edge pass, and not bins.is_monotonic_increasing in newer ones, which
\* rejects it: nan_rejected says which.  Then duplicate edges are rejected
\* unless there are exactly two edges.
NotMonotonic(edges, nan_rejected) ==
    \E i \in 1..(Len(edges) - 1) :
        \/ Lt(edges[i + 1], edges[i])
        \/ nan_rejected /\ (isna(edges[i]) \/ isna(edges[i + 1]))

DuplicateEdges(edges) ==
    Cardinality({edges[i] : i \in DOMAIN edges}) < Len(edges) /\ Len(edges) # 2

\* a binning that never checks the order of its edges
CutRaisesOnDuplicatesOnly(edges, nan_rejected) == DuplicateEdges(edges)

CutRaises(edges, nan_rejected) ==
    NotMonotonic(edges, nan_rejected) \/ DuplicateEdges(edges)

\* bins.searchsorted(x, side): the number of edges before the insertion
\* point of x; a NaN edge sorts last
SearchSorted(edges, x, side) ==
    Cardinality({i \in DOMAIN edges :
                    IF side = "right" THEN Le(edges[i], x) ELSE Lt(edges[i], x)})

\* intervals closed on the right, (b_i, b_i+1]: pd.cut's default
CutCodeRightClosed(edges, x) ==
    LET ids == SearchSorted(edges, x, "left")
    IN IF isna(x) \/ ids = Len(edges) \/ ids = 0 THEN 0 ELSE ids

\* a binning that clips to the first tier: a value below the first edge is
\* put into tier 1 instead of none
CutCodeClipped(edges, x) ==
    LET ids == SearchSorted(edges, x, "right")
    IN IF isna(x) \/ ids = Len(edges) THEN 0 ELSE IF ids = 0 THEN 1 ELSE ids

\* pd.cut(x, bins, right=False): the 1-based tier of x, 0 for no tier
CutCode(edges, x) ==
    LET ids == SearchSorted(edges, x, "right")
    IN IF isna(x) \/ ids = Len(edges) \/ ids = 0 THEN 0 ELSE ids

\* str() of a bin edge: an integer prints bare, a float64 with its fraction
EdgeText(v, as_float) ==
    IF isna(v) THEN "nan"
    ELSE IF IsInf(v) THEN (IF v.n < 0 THEN "-inf" ELSE "inf")
    ELSE (IF v.n < 0 THEN "-" ELSE "")
         \o ToString(Abs(v.n) \div v.d)
         \o (IF as_float THEN ".0" ELSE "")

\* labels[i] = f"{bins[i]}-{bins[i+1]-1}"; only the last edge comes from the
\* quantity column, which is float64 exactly when it holds a null
TierLabel(edges, i, float_column) ==
    EdgeText(edges[i], FALSE) \o "-"
        \o EdgeText(Sub(edges[i + 1], Num(1)), float_column /\ i + 1 = Len(edges))

\* the working copy: discount_pct added, and qty_tier once the cut is made
WithDiscount(df, list_price_col, unit_price_col) ==
    DataFrame(df.cols \o <<"discount_pct">>,
        [i \in DOMAIN df.rows |->
            df.rows[i]
            @@ ("discount_pct" :> discount_pct(df.rows[i], list_price_col, unit_price_col))])

\* labels=[f"{bins[i]}-{bins[i+1]-1}" for i in range(len(bins)-1)]
TierLabels(df, qty_col, edges) ==
    LET float_column == NaN \in {df.rows[i][qty_col] : i \in DOMAIN df.rows}
    IN [t \in 1..(Len(edges) - 1) |-> TierLabel(edges, t, float_column)]

WithTier(df, qty_col, edges) ==
    LET labels == TierLabels(df, qty_col, edges)
    IN DataFrame(df.cols \o <<"qty_tier">>,
        [i \in DOMAIN df.rows |->
            LET code == CutCode(edges, df.rows[i][qty_col])
            IN df.rows[i] @@ ("qty_tier" :> IF code = 0 THEN NULL ELSE labels[code])])

\* groupby("qty_tier")["discount_pct"].mean() over the categorical tier
\* column: every tier when observed is false (the default of the library up
\* to its second major release), only the tiers that hold a row otherwise
TierMeans(df, qty_col, edges, observed) ==
    LET labels == TierLabels(df, qty_col, edges)
        members == [t \in DOMAIN labels |->
                      SelectSeq(df.rows, LAMBDA r : r["qty_tier"] = labels[t])]
        tiers == SelectSeq([t \in DOMAIN labels |-> t],
                           LAMBDA t : ~observed \/ members[t] # <<>>)
    IN DataFrame(<<"qty_tier", "avg_discount">>,
         [j \in DOMAIN tiers |->
            [qty_tier |-> labels[tiers[j]],
             avg_discount |-> SeriesMean(Column(members[tiers[j]], "discount_pct"))]])

\* a filter that lets the rows with a null flag through (flag != False)
buyback_impact_null_as_true(df, sku_col, buyback_flag_col, revenue_col, cost_col) ==
    LET buy == DataFrame(df.cols,
                   SelectSeq(df.rows, LAMBDA r : r[buyback_flag_col] # "False"))
        keys == GroupKeys(buy, sku_col)
    IN DataFrame(<<sku_col, "buyback_count", "rev_impact", "cost_impact", "net_impact">>,
         [i \in 1..Len(keys) |->
            LET g == GroupRows(buy, sku_col, keys[i])
                rev_impact == SumSeq(Column(g, revenue_col))
                cost_impact == SumSeq(Column(g, cost_col))
            IN (sku_col :> keys[i])
               @@ ("buyback_count" :>
                     Cardinality({j \in DOMAIN g : g[j][buyback_flag_col] # NULL}))
               @@ ("rev_impact" :> rev_impact)
               @@ ("cost_impact" :> cost_impact)
               @@ ("net_impact" :> Sub(rev_impact, cost_impact))])

\* df[df[flag_col] == True]: a null flag compares unequal to True
buyback_impact(df, sku_col, buyback_flag_col, revenue_col, cost_col) ==
    LET buy == DataFrame(df.cols,
                   SelectSeq(df.rows, LAMBDA r : r[buyback_flag_col] = "True"))
        keys == GroupKeys(buy, sku_col)
    IN DataFrame(<<sku_col, "buyback_count", "rev_impact", "cost_impact", "net_impact">>,
         [i \in 1..Len(keys) |->
            LET g == GroupRows(buy, sku_col, keys[i])
                rev_impact == SumSeq(Column(g, revenue_col))
                cost_impact == SumSeq(Column(g, cost_col))
            IN (sku_col :> keys[i])
               \* agg 'count': the number of non-null flags of the group
               @@ ("buyback_count" :>
                     Cardinality({j \in DOMAIN g : g[j][buyback_flag_col] # NULL}))
               @@ ("rev_impact" :> rev_impact)
               @@ ("cost_impact" :> cost_impact)
               @@ ("net_impact" :> Sub(rev_impact, cost_impact))])

(***************************************************************************)
(* Time series: moving_avg_volume and churn_report.  A date cell holds a   *)
(* calendar month [y, m]; pd.to_datetime turns it into a timestamp (here   *)
(* the number of months since year 0) and to_period into the ordinal of    *)
(* the month or quarter that holds it.                                     *)
(***************************************************************************)
to_datetime(cell) == 12 * cell.y + (cell.m - 1)

to_period(timestamp, period_freq) ==
    IF period_freq = "Q" THEN timestamp \div 3 ELSE timestamp

\* df = sales_df.copy(); df[date_col] = pd.to_datetime(df[date_col])
WithTimestamps(df, date_col) ==
    DataFrame(df.cols,
        [i \in DOMAIN df.rows |-> [df.rows[i] EXCEPT ![date_col] = to_datetime(@)]])

\* the order of sort_values([sku_col, date_col]); a null key sorts last
BySkuThenDate(a, b, sku_col, date_col) ==
    \/ KeyRank(a[sku_col]) < KeyRank(b[sku_col])
    \/ a[sku_col] = b[sku_col] /\ a[date_col] < b[date_col]

\* df.sort_values([sku_col, date_col]): the rows in that order, rows that
\* tie in their input order
sort_values(rows, sku_col, date_col) ==
    LET Precedes(j, i) ==
            \/ BySkuThenDate(rows[j], rows[i], sku_col, date_col)
            \/ ~BySkuThenDate(rows[i], rows[j], sku_col, date_col) /\ j < i
        place(i) == 1 + Cardinality({j \in DOMAIN rows : Precedes(j, i)})
    IN [k \in DOMAIN rows |-> rows[CHOOSE i \in DOMAIN rows : place(i) = k]]

RECURSIVE Flatten(_)
Flatten(seqs) == IF seqs = <<>> THEN <<>> ELSE Head(seqs) \o Flatten(Tail(seqs))

\* a rolling mean that accepts a partial window (min_periods=1)
RollingMeanPartial(vals, w) ==
    [i \in DOMAIN vals |->
        SeriesMean(SubSeq(vals, IF i < w THEN 1 ELSE i - w + 1, i))]

\* rolling(window=w).mean() over the values of one group: min_periods is
\* the window size, so the value is NaN until the window is full and
\* whenever the window holds a null
RollingMean(vals, w) ==
    [i \in DOMAIN vals |->
        IF i < w THEN NaN
        ELSE LET win == SubSeq(vals, i - w + 1, i)
             IN IF \E k \in DOMAIN win : isna(win[k]) THEN NaN ELSE SeriesMean(win)]

\* df.groupby(sku_col).rolling(window, on=date_col)[vol_col].mean()
\* .reset_index(): one row per row of a group, group after group
GroupedRolling(df, sku_col, vol_col, date_col, w) ==
    LET keys == GroupKeys(df, sku_col)
    IN Flatten([g \in DOMAIN keys |->
            LET rows == GroupRows(df, sku_col, keys[g])
                means == RollingMean(Column(rows, vol_col), w)
            IN [i \in DOMAIN rows |->
                   (sku_col :> keys[g]) @@ (date_col :> rows[i][date_col])
                   @@ ("rolling_avg_volume" :> means[i])]])

\* left.merge(right[on + [col]], on=on, how="left"): every left row, once
\* per right row with the same key, or once with NaN when there is none
merge_left(left, right, on, col) ==
    Flatten([i \in DOMAIN left |->
        LET matches == SelectSeq(right, LAMBDA r : \A c \in on : r[c] = left[i][c])
        IN IF matches = <<>> THEN <<left[i] @@ (col :> NaN)>>
           ELSE [j \in DOMAIN matches |-> left[i] @@ (col :> matches[j][col])]])

\* the working copy of moving_avg_volume: dates converted, rows sorted
SortedBySkuAndDate(df, sku_col, date_col) ==
    LET copy == WithTimestamps(df, date_col)
    IN DataFrame(copy.cols,
           sort_values(copy.rows, sku_col, date_col))

moving_avg_volume(df, sku_col, vol_col, date_col, w) ==
    LET sorted == SortedBySkuAndDate(df, sku_col, date_col)
        rolling == GroupedRolling(sorted, sku_col, vol_col, date_col, w)
    IN DataFrame(sorted.cols \o <<"rolling_avg_volume">>,
           merge_left(sorted.rows, rolling, {sku_col, date_col}, "rolling_avg_volume"))

RECURSIVE SortInts(_)
SortInts(S) ==
    IF S = {} THEN <<>>
    ELSE LET m == CHOOSE x \in S : \A y \in S : x <= y
         IN <<m>> \o SortInts(S \ {m})

\* df["period"] = df[date_col].dt.to_period(freq), on the converted copy
WithPeriod(df, date_col, period_freq) ==
    LET copy == WithTimestamps(df, date_col)
    IN DataFrame(copy.cols \o <<"period">>,
        [i \in DOMAIN copy.rows |->
            copy.rows[i] @@ ("period" :> to_period(copy.rows[i][date_col], period_freq))])

\* the periods of a key in the order the rows hold them (no sort)
PeriodsAsFound(df, sku_col, k) ==
    LET rows == GroupRows(df, sku_col, k)
        first == {i \in DOMAIN rows :
                     \A j \in 1..(i - 1) : rows[j]["period"] # rows[i]["period"]}
    IN [n \in 1..Cardinality(first) |->
           rows[CHOOSE i \in first : Cardinality({j \in first : j <= i}) = n]["period"]]

\* the groups of groupby([sku_col, "period"]) for one key, after
\* sort_values([sku_col, "period"]): its distinct periods in ascending order
PeriodsOf(df, sku_col, k) ==
    LET rows == GroupRows(df, sku_col, k)
    IN SortInts({rows[i]["period"] : i \in DOMAIN rows})

\* a sum over the rows of the period whatever their key
PeriodVolumeOfAllKeys(df, sku_col, vol_col, k, p) ==
    SumSeq(Column(SelectSeq(df.rows, LAMBDA r : r["period"] = p), vol_col))

\* groupby([sku_col, "period"])[vol_col].sum() for one group
PeriodVolume(df, sku_col, vol_col, k, p) ==
    SumSeq(Column(SelectSeq(df.rows, LAMBDA r : r[sku_col] = k /\ r["period"] = p),
                  vol_col))

\* a shift that fills the vacated first place with zero (fill_value=0)
shift_zero_filled(vals) ==
    [i \in DOMAIN vals |-> IF i = 1 THEN Num(0) ELSE vals[i - 1]]

\* groupby(sku_col)[vol_col].shift(1) over the values of one key: each
\* value moves one place down and the first place is null
shift(vals) ==
    [i \in DOMAIN vals |-> IF i = 1 THEN NaN ELSE vals[i - 1]]

churn_report(df, sku_col, vol_col, date_col, period_freq) ==
    LET copy == WithPeriod(df, date_col, period_freq)
        keys == GroupKeys(copy, sku_col)
    IN DataFrame(<<sku_col, "period", vol_col, "prev_volume", "delta", "pct_change">>,
         Flatten([g \in DOMAIN keys |->
            LET periods == PeriodsOf(copy, sku_col, keys[g])
                volumes == [i \in DOMAIN periods |->
                               PeriodVolume(copy, sku_col, vol_col, keys[g], periods[i])]
                prev_volume == shift(volumes)
            IN [i \in DOMAIN periods |->
                   LET delta == Sub(volumes[i], prev_volume[i])
                   IN (sku_col :> keys[g]) @@ ("period" :> periods[i])
                      @@ (vol_col :> volumes[i])
                      @@ ("prev_volume" :> prev_volume[i])
                      @@ ("delta" :> delta)
                      @@ ("pct_change" :> Mul(TrueDiv(delta, prev_volume[i]), Num(100)))]]))

(***************************************************************************)
(* The input tables: what the loader can hand over.  Each schema is an     *)
(* export with the columns one family of transforms reads.                 *)
(***************************************************************************)
Skus == {"A", "B", NULL}
Flags == {"True", "False", NULL}

OrderLineRows == [sku : Skus, order_id : {Num(1), Num(2), NaN}]
SalesRows == [sku : Skus, qty : {Num(1), Num(2), NaN}, vol : {Num(3), NaN}]
CogsRows == [sku : Skus, cost : {Num(1), Num(2), NaN}]
PriceRows == [sku : Skus, rev : {Num(-1), Num(0), Num(2)}, qty : {Num(0), Num(1), NaN}]
MarginRows == [sku : Skus, flag : Flags, rev : {Num(0), Num(2), NaN}, cost : {Num(1)}]
DiscountRows ==
    [order_id : {Num(1), Num(2)},
     list_price : {Num(0), Num(2), NaN},
     unit_price : {Num(-1), Num(0), Num(1)}]
ProductRows == [raw_material : Skus, cogs_subtotal : {Num(1), Num(2), NaN}]

\* the loader hands over a table of up to MaxRows rows with these columns
Loaded(cols, Rows) ==
    \E n \in 0..MaxRows : \E rows \in [1..n -> Rows] : order_df = DataFrame(cols, rows)

NoResult == DataFrame(<<>>, <<>>)

(***************************************************************************)
(* One call of a transform on the loaded table.  A column the call names   *)
(* and the table lacks makes the column lookup raise KeyError.             *)
(***************************************************************************)
\* df = order_df: a second name of the caller's table
same_table(df) == [table |-> df, own |-> FALSE]

\* order_df.copy(): a table of its own with the contents of the caller's
copy(df) == [table |-> df, own |-> TRUE]

\* a working table that is never a table of its own: every column
\* assignment reaches the caller's table
WriteThrough(df, working, written) == written

\* the caller's table once `written` has been stored under the working
\* name: column assignments (df[col] = ...) reach it only when the working
\* name is not a table of its own
AfterWrites(df, working, written) == IF working.own THEN df ELSE written

Return(name, table) ==
    /\ op' = name
    /\ result' = table
    /\ raised' = ""
    /\ UNCHANGED <<order_df, breaks, value, window, freq, local_df, bins, text>>
    /\ UNCHANGED dash_vars

\* a guard in the manner of the dashboards: without the column nothing is
\* computed and nothing is signalled
SkipSilently(name, error) ==
    /\ op' = name
    /\ result' = NoResult
    /\ raised' = ""
    /\ UNCHANGED <<order_df, breaks, value, window, freq, local_df, bins, text>>
    /\ UNCHANGED dash_vars

Raise(name, error) ==
    /\ op' = name
    /\ result' = NoResult
    /\ raised' = error
    /\ UNCHANGED <<order_df, breaks, value, window, freq, local_df, bins, text>>
    /\ UNCHANGED dash_vars

SalesByProduct ==
    /\ op = "none"
    /\ IF HasColumns(order_df, {"sku", "qty", "vol"})
       THEN Return("sales_by_product", sales_by_product(order_df, "sku", "qty", "vol"))
       ELSE Raise("sales_by_product", "KeyError")

OrderCounts ==
    /\ op = "none"
    /\ IF HasColumns(order_df, {"sku", "order_id"})
       THEN Return("order_counts", order_counts(order_df, "sku", "order_id"))
       ELSE Raise("order_counts", "KeyError")

AvgSalesPrice ==
    /\ op = "none"
    /\ IF HasColumns(order_df, {"sku", "rev", "qty"})
       THEN Return("avg_sales_price", avg_sales_price(order_df, "sku", "rev", "qty"))
       ELSE Raise("avg_sales_price", "KeyError")

AvgMarginByProduct ==
    /\ op = "none"
    /\ IF HasColumns(order_df, {"sku", "rev", "cost"})
       THEN Return("avg_margin_by_product",
                   avg_margin_by_product(order_df, "sku", "rev", "cost"))
       ELSE Raise("avg_margin_by_product", "KeyError")

CogsByProduct ==
    /\ op = "none"
    /\ IF HasColumns(order_df, {"sku", "cost"})
       THEN Return("cogs_by_product", cogs_by_product(order_df, "sku", "cost"))
       ELSE Raise("cogs_by_product", "KeyError")

CogsBreakdownByMaterial ==
    /\ op = "none"
    /\ IF HasColumns(order_df, {"raw_material", "cogs_subtotal"})
       THEN Return("cogs_breakdown_by_material",
                   cogs_breakdown_by_material(order_df, "raw_material", "cogs_subtotal"))
       ELSE Raise("cogs_breakdown_by_material", "KeyError")

DiscountsByOrder ==
    /\ op = "none"
    /\ op' = "discounts_by_order"
    /\ UNCHANGED <<breaks, value, window, freq, bins, text>>
    /\ UNCHANGED dash_vars
    /\ LET df == copy(order_df)
           written == IF HasColumns(order_df, {"list_price", "unit_price"})
                      THEN WithDiscount(df.table, "list_price", "unit_price")
                      ELSE df.table
       IN /\ order_df' = AfterWrites(order_df, df, written)
          /\ local_df' = written
          /\ IF HasColumns(order_df, {"list_price", "unit_price", "order_id"})
             THEN /\ raised' = ""
                  /\ result' = discounts_by_order(order_df, "list_price", "unit_price",
                                                  "order_id")
             ELSE /\ raised' = "KeyError"
                  /\ result' = NoResult

BuybackImpact ==
    /\ op = "none"
    /\ IF HasColumns(order_df, {"sku", "flag", "rev", "cost"})
       THEN Return("buyback_impact",
                   buyback_impact(order_df, "sku", "flag", "rev", "cost"))
       ELSE Raise("buyback_impact", "KeyError")

\* the result is handed to the renderer and discarded; the table can be used again
Discard ==
    /\ op # "none"
    /\ op' = "none"
    /\ local_df' = NoResult
    /\ bins' = <<>>
    /\ result' = NoResult
    /\ text' = ""
    /\ raised' = ""
    /\ UNCHANGED <<order_df, breaks, value, window, freq>>
    /\ UNCHANGED dash_vars

\* nothing has been called yet
Idle ==
    /\ op = "none"
    /\ local_df = NoResult
    /\ bins = <<>>
    /\ result = NoResult
    /\ text = ""
    /\ raised = ""

\* the value of a component that has not been given one
Blank == [blank |-> TRUE]

\* the inputs of a callback that takes none
NoArgs == [categories |-> {}, packaging_types |-> {}, royalty_filter |-> ""]

\* no callback invocation has returned yet
NoCall == [fn |-> "none", args |-> NoArgs, raised |-> "", value |-> Blank]

\* the output components as the page builds them: gr.HTML(), gr.Plot() and
\* gr.Dataframe() without a value, grouped by the callback that fills them
NoOutputs ==
    [executive_summary |-> Blank, sales_analysis |-> Blank, invoice_analysis |-> Blank,
     materials_analysis |-> Blank, cross_analysis |-> Blank]

\* the dashboard is not part of the run
NotServing ==
    /\ product_df = NoResult
    /\ invoice_df = NoResult
    /\ materials_df = NoResult
    /\ kpis = <<>>
    /\ categories = {}
    /\ packaging_types = {}
    /\ royalty_filter = "All"
    /\ events = 0
    /\ calls = <<>>
    /\ returned = NoCall
    /\ outputs = NoOutputs

Init ==
    /\ \/ Loaded(<<"sku", "order_id">>, OrderLineRows)
       \/ Loaded(<<"sku", "qty", "vol">>, SalesRows)
       \/ Loaded(<<"sku", "cost">>, CogsRows)
       \/ Loaded(<<"sku", "rev", "qty">>, PriceRows)
       \/ Loaded(<<"sku", "flag", "rev", "cost">>, MarginRows)
       \/ Loaded(<<"order_id", "list_price", "unit_price">>, DiscountRows)
       \/ Loaded(<<"raw_material", "cogs_subtotal">>, ProductRows)
    /\ breaks = <<>>
    /\ value = NaN
    /\ window = DefaultWindow
    /\ freq = DefaultFreq
    /\ Idle
    /\ NotServing

Next ==
    \/ SalesByProduct
    \/ OrderCounts
    \/ AvgSalesPrice
    \/ AvgMarginByProduct
    \/ CogsByProduct
    \/ CogsBreakdownByMaterial
    \/ DiscountsByOrder
    \/ BuybackImpact
    \/ Discard

Spec == Init /\ [][Next]_vars

(***************************************************************************)
(* qty_break_discounts.  Its sku_col parameter is never read.              *)
(***************************************************************************)
Thresholds == {0, 1, 2, 3}

BreakLists == UNION {[1..n -> Thresholds] : n \in 0..MaxBreaks}

QtyRows ==
    [qty : {Num(0), Num(2), Num(3)}, list_price : {Num(2), Num(4)}, unit_price : {Num(1)}]
        \cup [qty : {Num(-1), Num(1), NaN}, list_price : {Num(2)}, unit_price : {Num(1)}]

\* the release of the library decides two things: whether a NaN edge fails
\* the monotonicity check (it matters only when an edge is NaN) and the
\* default of observed
LibraryChoices(edges) ==
    IF \E i \in DOMAIN edges : isna(edges[i]) THEN BOOLEAN ELSE {FALSE}

QtyBreakDiscounts ==
    /\ op = "none"
    /\ op' = "qty_break_discounts"
    /\ UNCHANGED <<breaks, value, window, freq, text>>
    /\ UNCHANGED dash_vars
    /\ LET df == copy(order_df)
       IN IF ~HasColumns(order_df, {"list_price", "unit_price"})
          THEN /\ raised' = "KeyError"
               /\ order_df' = AfterWrites(order_df, df, df.table)
               /\ local_df' = df.table
               /\ UNCHANGED <<bins, result>>
          ELSE LET discounted == WithDiscount(df.table, "list_price", "unit_price")
               IN IF ~HasColumns(order_df, {"qty"})
                  THEN /\ raised' = "KeyError"
                       /\ order_df' = AfterWrites(order_df, df, discounted)
                       /\ local_df' = discounted
                       /\ UNCHANGED <<bins, result>>
                  ELSE LET edges == BinEdges(discounted, "qty", breaks)
                       IN \E nan_rejected \in LibraryChoices(edges), observed \in BOOLEAN :
                            /\ bins' = edges
                            /\ order_df' = AfterWrites(order_df, df, local_df')
                            /\ IF CutRaises(edges, nan_rejected)
                               THEN /\ raised' = "ValueError"
                                    /\ local_df' = discounted
                                    /\ result' = NoResult
                               ELSE /\ raised' = ""
                                    /\ local_df' = WithTier(discounted, "qty", edges)
                                    /\ result' = TierMeans(local_df', "qty", edges, observed)

InitQty ==
    /\ Loaded(<<"qty", "list_price", "unit_price">>, QtyRows)
    /\ breaks \in BreakLists
    /\ value = NaN
    /\ window = DefaultWindow
    /\ freq = DefaultFreq
    /\ Idle
    /\ NotServing

NextQty ==
    \/ QtyBreakDiscounts
    \/ Discard

SpecQty == InitQty /\ [][NextQty]_vars

(***************************************************************************)
(* The value formatters of the dashboards (the same three functions in     *)
(* gradio_dash.py and streamlit_dash.py).  A format specification rounds   *)
(* half to even at the requested digit and prints an infinity as "inf".    *)
(***************************************************************************)
RECURSIVE Pow10(_)
Pow10(e) == IF e = 0 THEN 1 ELSE 10 * Pow10(e - 1)

\* |v| * 10^digits rounded half to even, for a finite v
RoundScaled(v, digits) ==
    LET n == Abs(v.n) * Pow10(digits)
        q == n \div v.d
        r == n % v.d
    IN IF 2 * r > v.d \/ (2 * r = v.d /\ q % 2 = 1) THEN q + 1 ELSE q

\* the decimal digits of i, left-padded with zeros to width w
RECURSIVE ZeroPad(_, _)
ZeroPad(i, w) ==
    IF w <= 1 THEN ToString(i) ELSE ZeroPad(i \div 10, w - 1) \o ToString(i % 10)

\* the "," option: the integer part in groups of three
RECURSIVE Grouped(_)
Grouped(i) ==
    IF i < 1000 THEN ToString(i)
    ELSE Grouped(i \div 1000) \o "," \o ZeroPad(i % 1000, 3)

\* format(v, ",.<digits>f") when comma, format(v, ".<digits>f") otherwise
FormatFixed(v, digits, comma) ==
    IF isna(v) THEN "nan"
    ELSE IF IsInf(v) THEN (IF v.n < 0 THEN "-inf" ELSE "inf")
    ELSE LET scaled == RoundScaled(v, digits)
             whole == scaled \div Pow10(digits)
             frac == scaled % Pow10(digits)
         IN (IF v.n < 0 THEN "-" ELSE "")
            \o (IF comma THEN Grouped(whole) ELSE ToString(whole))
            \o (IF digits = 0 THEN "" ELSE "." \o ZeroPad(frac, digits))

\* a formatter that lets the undefined marker show
format_currency_nan_visible(v) ==
    IF IsZero(v) THEN "$0.00" ELSE "$" \o FormatFixed(v, 2, TRUE)

format_currency(v) ==
    IF isna(v) \/ IsZero(v) THEN "$0.00" ELSE "$" \o FormatFixed(v, 2, TRUE)

format_percentage(v) ==
    IF isna(v) THEN "0.0%" ELSE FormatFixed(v, 1, FALSE) \o "%"

format_number(v) ==
    IF isna(v) THEN "0" ELSE FormatFixed(v, 0, TRUE)

\* the metrics a dashboard renders: the special values and a grid of amounts
MetricValues ==
    {NaN, PosInf, NegInf}
    \cup {Rat(n * m, d) : n \in -3..3, m \in {1, 1000, 1234567}, d \in {1, 2, 8, 16}}

Rendered(name, shown) ==
    /\ op' = name
    /\ text' = shown
    /\ raised' = ""
    /\ UNCHANGED <<order_df, breaks, value, window, freq, local_df, bins, result>>
    /\ UNCHANGED dash_vars

FormatCurrency == op = "none" /\ Rendered("format_currency", format_currency(value))

FormatPercentage == op = "none" /\ Rendered("format_percentage", format_percentage(value))

FormatNumber == op = "none" /\ Rendered("format_number", format_number(value))

InitFmt ==
    /\ order_df = NoResult
    /\ breaks = <<>>
    /\ value \in MetricValues
    /\ window = DefaultWindow
    /\ freq = DefaultFreq
    /\ Idle
    /\ NotServing

NextFmt ==
    \/ FormatCurrency
    \/ FormatPercentage
    \/ FormatNumber
    \/ Discard

SpecFmt == InitFmt /\ [][NextFmt]_vars

(***************************************************************************)
(* moving_avg_volume and churn_report over a sales history.                *)
(***************************************************************************)
Month(y, m) == [y |-> y, m |-> m]

\* November and December of one year and January of the next: three months,
\* two quarters, and an order that differs from that of the month numbers
RollDates == {Month(2024, 11), Month(2024, 12), Month(2025, 1)}

RollRows ==
    [sku : {"A", "B"}, date : RollDates, vol : {Num(1), Num(3)}]
        \cup {[sku |-> NULL, date |-> Month(2024, 11), vol |-> Num(1)],
              [sku |-> "A", date |-> Month(2024, 12), vol |-> NaN]}

\* as RollDates, and a month two quarters later
ChurnDates == RollDates \cup {Month(2025, 8)}

ChurnRows ==
    [sku : {"A"}, date : ChurnDates, vol : {Num(100), Num(150)}]
        \cup [sku : {"B"}, date : ChurnDates, vol : {Num(100)}]
        \cup {[sku |-> NULL, date |-> Month(2024, 11), vol |-> Num(1)],
              [sku |-> "A", date |-> Month(2024, 12), vol |-> NaN]}

Freqs == {"Q", "M"}

LoadedSeries(Rows) ==
    \E n \in 0..MaxSeries : \E rows \in [1..n -> Rows] :
        order_df = DataFrame(<<"sku", "date", "vol">>, rows)

\* On a table without rows the outcome is left to the release of the
\* library: the merge of the empty rolling table either gives an empty
\* result or is refused for the types of its key columns.
MovingAvgVolume ==
    /\ op = "none"
    /\ op' = "moving_avg_volume"
    /\ UNCHANGED <<breaks, value, window, freq, bins, text>>
    /\ UNCHANGED dash_vars
    /\ LET df == copy(order_df)
           converted == IF HasColumns(order_df, {"date"})
                        THEN WithTimestamps(df.table, "date")
                        ELSE df.table
       IN /\ order_df' = AfterWrites(order_df, df, converted)
          /\ IF ~HasColumns(order_df, {"sku", "vol", "date"})
             THEN /\ raised' = "KeyError"
                  /\ local_df' = converted
                  /\ result' = NoResult
             ELSE /\ local_df' = SortedBySkuAndDate(order_df, "sku", "date")
                  /\ \E refused \in (IF order_df.rows = <<>> THEN BOOLEAN ELSE {FALSE}) :
                       IF refused
                       THEN raised' = "ValueError" /\ result' = NoResult
                       ELSE /\ raised' = ""
                            /\ result' = moving_avg_volume(order_df, "sku", "vol", "date",
                                                           window)

InitRoll ==
    /\ LoadedSeries(RollRows)
    /\ breaks = <<>>
    /\ value = NaN
    /\ window \in 1..MaxWindow
    /\ freq = DefaultFreq
    /\ Idle
    /\ NotServing

NextRoll ==
    \/ MovingAvgVolume
    \/ Discard

SpecRoll == InitRoll /\ [][NextRoll]_vars

ChurnReport ==
    /\ op = "none"
    /\ op' = "churn_report"
    /\ UNCHANGED <<breaks, value, window, freq, bins, text>>
    /\ UNCHANGED dash_vars
    /\ LET df == copy(order_df)
           with_period == IF HasColumns(order_df, {"date"})
                          THEN WithPeriod(df.table, "date", freq)
                          ELSE df.table
       IN /\ order_df' = AfterWrites(order_df, df, with_period)
          /\ local_df' = with_period
          /\ IF ~HasColumns(order_df, {"sku", "vol", "date"})
             THEN /\ raised' = "KeyError"
                  /\ result' = NoResult
             ELSE /\ raised' = ""
                  /\ result' = churn_report(order_df, "sku", "vol", "date", freq)

InitChurn ==
    /\ LoadedSeries(ChurnRows)
    /\ breaks = <<>>
    /\ value = NaN
    /\ window = DefaultWindow
    /\ freq \in Freqs
    /\ Idle
    /\ NotServing

NextChurn ==
    \/ ChurnReport
    \/ Discard

SpecChurn == InitChurn /\ [][NextChurn]_vars

(***************************************************************************)
(* The whole pipeline: any transform called on any of the tables, with the *)
(* column names of the exports as its column-name arguments.               *)
(***************************************************************************)
\* a sales history that also holds the units sold: a table with a column
\* more than moving_avg_volume and churn_report are told to read
WideRows ==
    [sku : {"A", "B"}, date : {Month(2024, 11), Month(2024, 12)},
     vol : {Num(1)}, qty : {Num(2)}]

InitUsage ==
    \/ Init
    \/ /\ \/ Loaded(<<"qty", "list_price", "unit_price">>, QtyRows)
          \/ Loaded(<<"sku", "date", "vol">>, RollRows)
          \/ Loaded(<<"sku", "date", "vol", "qty">>, WideRows)
       /\ breaks \in {<<>>, <<2>>}
       /\ value = NaN
       /\ window \in {1, DefaultWindow}
       /\ freq = DefaultFreq
       /\ Idle
       /\ NotServing

NextUsage ==
    \/ Next
    \/ QtyBreakDiscounts
    \/ MovingAvgVolume
    \/ ChurnReport

SpecUsage == InitUsage /\ [][NextUsage]_vars

(***************************************************************************)
(* The Gradio dashboard (gradio_dash.py).  Four tables and a KPI           *)
(* dictionary are loaded once into module-level names; five callbacks read *)
(* them.  Text columns hold strings, whose null is NULL; HTML is a         *)
(* sequence of the text fragments the template interpolates, the empty     *)
(* string being the empty sequence; a figure is a record of its kind and   *)
(* the rows it plots.                                                      *)
(***************************************************************************)
\* fig = None
None == [kind |-> "None", data |-> <<>>]

Figure(kind, data) == [kind |-> kind, data |-> data]

\* DataFrame.empty: an axis of length 0
empty(df) == df.rows = <<>> \/ df.cols = <<>>

\* the sort order of the text values of the sample files (code point order)
Collation ==
    <<"ATF", "Detroit", "Drum", "Gear", "Grease", "Ground", "Lithium", "MT1", "MT2",
      "Oil", "Open", "PN1", "PN2", "Paid", "Pail", "Pickup">>

TextRank(k) == CHOOSE i \in DOMAIN Collation : Collation[i] = k

RECURSIVE SortText(_)
SortText(S) ==
    IF S = {} THEN <<>>
    ELSE LET m == CHOOSE x \in S : \A y \in S : TextRank(x) <= TextRank(y)
         IN <<m>> \o SortText(S \ {m})

\* groupby(key) on a text column: the distinct non-null keys, sorted
TextKeys(rows, key) == SortText({rows[i][key] : i \in DOMAIN rows} \ {NULL})

\* Series.nunique() of a text column
nunique_text(s) == Cardinality({s[i] : i \in DOMAIN s} \ {NULL})

\* the 'count' aggregation of a text column: its non-null cells
count_text(s) == Len(SelectSeq(s, LAMBDA v : v # NULL))

\* the 'count' aggregation of a numeric column: its non-null cells
count(s) == Len(SelectSeq(s, LAMBDA v : ~isna(v)))

\* df[col] = values: the column is replaced when present, appended otherwise
assign(df, col, values) ==
    DataFrame(IF col \in Range(df.cols) THEN df.cols ELSE df.cols \o <<col>>,
        [i \in DOMAIN df.rows |->
            [c \in (DOMAIN df.rows[i]) \cup {col} |->
                IF c = col THEN values[i] ELSE df.rows[i][c]]])

\* the first n rows
head(rows, n) == SubSeq(rows, 1, IF Len(rows) < n THEN Len(rows) ELSE n)

\* sort_values(col, ascending=False) on a numeric column without nulls;
\* equal values keep their order
sort_descending(rows, col) ==
    LET before(i) == Cardinality({j \in DOMAIN rows :
                        \/ Lt(rows[i][col], rows[j][col])
                        \/ rows[j][col] = rows[i][col] /\ j < i})
    IN [p \in DOMAIN rows |-> rows[CHOOSE i \in DOMAIN rows : before(i) = p - 1]]

\* Series.value_counts() of a text column: one row per distinct non-null
\* value with the number of its cells, the most frequent first, equally
\* frequent values in the order of their first cell
RECURSIVE FirstCells(_, _)
FirstCells(s, seen) ==
    IF s = <<>> THEN <<>>
    ELSE IF Head(s) = NULL \/ Head(s) \in seen THEN FirstCells(Tail(s), seen)
    ELSE <<Head(s)>> \o FirstCells(Tail(s), seen \cup {Head(s)})

value_counts(s) ==
    LET found == FirstCells(s, {})
    IN sort_descending(
         [j \in DOMAIN found |->
            [index |-> found[j],
             count |-> Num(Len(SelectSeq(s, LAMBDA v : v = found[j])))]],
         "count")

\* str() of a monthly period: "YYYY-MM"
PeriodText(period) == ToString(period \div 12) \o "-" \o ZeroPad((period % 12) + 1, 2)

\* DataFrame.round(2) of a cell
round(v) ==
    IF IsFinite(v) THEN Rat(Sign(v) * RoundScaled(v, 2), 100) ELSE v

(***************************************************************************)
(* The sample files.                                                       *)
(***************************************************************************)
ProductColumns ==
    <<"Id", "Name", "Category__c", "Packaging_Type__c", "Royalty__c", "Net_Volume__c",
      "ccrz__Quantityperunit__c", "Purchase_Price__c", "COG_Subtotal__c">>

OrderColumns ==
    <<"Id", "ccrz__ShipMethod__c", "Total_Cost__c", "Average_Gross_Profit_Margin__c">>

InvoiceColumns ==
    <<"Id", "ccrz__Status__c", "ccrz__DateIssued__c", "ccrz__OriginalAmount__c",
      "ccrz__PaidAmount__c", "ccrz__RemainingAmount__c">>

MaterialColumns ==
    <<"Id", "Plant__c", "MtlPartNum__c", "PartNum__c", "QtyPer__c", "CreatedDate">>

Row(cols, cells) == [c \in Range(cols) |-> cells[CHOOSE i \in DOMAIN cols : cols[i] = c]]

ProductSample ==
    <<Row(ProductColumns, <<"p1", "ATF", "Oil", "Drum", "True", Num(55), Num(1), Num(100), Num(60)>>),
      Row(ProductColumns, <<"p2", "Lithium", "Grease", "Pail", "False", Num(5), Num(4), Num(40), Num(25)>>),
      Row(ProductColumns, <<"p3", "Gear", NULL, "Drum", NULL, NaN, Num(1), NaN, NaN>>)>>

OrderSample ==
    <<Row(OrderColumns, <<"o1", "Ground", Num(120), Num(30)>>),
      Row(OrderColumns, <<"o2", "Pickup", Num(80), NaN>>)>>

InvoiceSample ==
    <<Row(InvoiceColumns, <<"i1", "Paid", Month(2024, 11), Num(100), Num(100), Num(0)>>),
      Row(InvoiceColumns, <<"i2", "Open", Month(2024, 12), Num(50), Num(0), Num(50)>>),
      Row(InvoiceColumns, <<"i3", "Open", Month(2024, 12), Num(0), Num(0), Num(0)>>)>>

MaterialSample ==
    <<Row(MaterialColumns, <<"m1", "Detroit", "MT1", "PN1", Num(2), Month(2024, 11)>>),
      Row(MaterialColumns, <<"m2", "Detroit", "MT2", "PN1", Num(3), Month(2024, 12)>>)>>

\* the rows of a sample at the positions picked, in file order
RECURSIVE Picked(_, _, _)
Picked(sample, positions, i) ==
    IF i > Len(sample) THEN <<>>
    ELSE (IF i \in positions THEN <<sample[i]>> ELSE <<>>) \o Picked(sample, positions, i + 1)

\* product files of up to MaxRows rows
ProductFiles ==
    {DataFrame(ProductColumns, Picked(ProductSample, positions, 1)) :
        positions \in {S \in SUBSET (DOMAIN ProductSample) : Cardinality(S) <= MaxRows}}

\* the product file of the first MaxRows rows
FullProductFile == DataFrame(ProductColumns, Picked(ProductSample, 1..MaxRows, 1))

\* order, invoice and materials files with every table filled
FullBackOffice ==
    [orders |-> DataFrame(OrderColumns, OrderSample),
     invoices |-> DataFrame(InvoiceColumns, SubSeq(InvoiceSample, 1, 2)),
     materials |-> DataFrame(MaterialColumns, MaterialSample)]

\* the order, invoice and materials files: every table filled; invoices of
\* amount zero without any order or material; no invoice
BackOfficeFiles ==
    {FullBackOffice,
     [orders |-> DataFrame(OrderColumns, <<>>),
      invoices |-> DataFrame(InvoiceColumns, SubSeq(InvoiceSample, 3, 3)),
      materials |-> DataFrame(MaterialColumns, <<>>)],
     [orders |-> DataFrame(OrderColumns, SubSeq(OrderSample, 1, 1)),
      invoices |-> DataFrame(InvoiceColumns, <<>>),
      materials |-> DataFrame(MaterialColumns, SubSeq(MaterialSample, 1, 1))]}

(***************************************************************************)
(* Loading.                                                                *)
(***************************************************************************)
\* product_df['Total_Gallons'] = Net_Volume__c * ccrz__Quantityperunit__c
with_total_gallons(df) ==
    assign(df, "Total_Gallons",
        [i \in DOMAIN df.rows |->
            IF HasColumns(df, {"ccrz__Quantityperunit__c"})
            THEN Mul(df.rows[i]["Net_Volume__c"], df.rows[i]["ccrz__Quantityperunit__c"])
            ELSE df.rows[i]["Net_Volume__c"]])

\* load_data(): the date columns become timestamps and the products get
\* their Total_Gallons
load_data(products, orders, invoices, materials) ==
    [product_df |->
        IF HasColumns(products, {"Net_Volume__c", "ccrz__Quantityperunit__c"})
        THEN with_total_gallons(products) ELSE products,
     order_df |-> orders,
     invoice_df |->
        IF HasColumns(invoices, {"ccrz__DateIssued__c"})
        THEN WithTimestamps(invoices, "ccrz__DateIssued__c") ELSE invoices,
     materials_df |->
        IF HasColumns(materials, {"CreatedDate"})
        THEN WithTimestamps(materials, "CreatedDate") ELSE materials]

calculate_kpis(products, orders, invoices, materials) ==
    [avg_sales_price |->
        IF HasColumns(products, {"Purchase_Price__c"})
        THEN SeriesMean(Column(products.rows, "Purchase_Price__c")) ELSE Num(0),
     avg_gross_margin |->
        IF HasColumns(orders, {"Average_Gross_Profit_Margin__c"})
        THEN SeriesMean(Column(orders.rows, "Average_Gross_Profit_Margin__c")) ELSE Num(0),
     total_cogs |->
        IF HasColumns(products, {"COG_Subtotal__c"})
        THEN SumSeq(Column(products.rows, "COG_Subtotal__c")) ELSE Num(0),
     avg_cogs |->
        IF HasColumns(products, {"COG_Subtotal__c"})
        THEN SeriesMean(Column(products.rows, "COG_Subtotal__c")) ELSE Num(0),
     open_orders |-> Num(Len(orders.rows)),
     total_products |-> Num(Len(products.rows)),
     total_invoiced |->
        IF HasColumns(invoices, {"ccrz__OriginalAmount__c"})
        THEN SumSeq(Column(invoices.rows, "ccrz__OriginalAmount__c")) ELSE Num(0),
     total_paid |->
        IF HasColumns(invoices, {"ccrz__OriginalAmount__c", "ccrz__PaidAmount__c"})
        THEN SumSeq(Column(invoices.rows, "ccrz__PaidAmount__c")) ELSE Num(0),
     total_remaining |->
        IF HasColumns(invoices, {"ccrz__OriginalAmount__c", "ccrz__RemainingAmount__c"})
        THEN SumSeq(Column(invoices.rows, "ccrz__RemainingAmount__c")) ELSE Num(0),
     unique_materials |->
        IF HasColumns(materials, {"MtlPartNum__c"})
        THEN Num(nunique_text(Column(materials.rows, "MtlPartNum__c"))) ELSE Num(0),
     unique_parts |->
        IF HasColumns(materials, {"PartNum__c"})
        THEN Num(nunique_text(Column(materials.rows, "PartNum__c"))) ELSE Num(0)]

\* the dictionary of the except branch
ZeroKpis ==
    [avg_sales_price |-> Num(0), avg_gross_margin |-> Num(0), total_cogs |-> Num(0),
     avg_cogs |-> Num(0), open_orders |-> Num(0), total_products |-> Num(0),
     total_invoiced |-> Num(0), total_paid |-> Num(0), total_remaining |-> Num(0),
     unique_materials |-> Num(0), unique_parts |-> Num(0)]

\* the choices of a dropdown: df[col].dropna().unique() when the table has
\* rows and the column, nothing otherwise
choices(df, col) ==
    IF ~empty(df) /\ HasColumns(df, {col})
    THEN {df.rows[i][col] : i \in DOMAIN df.rows} \ {NULL}
    ELSE {}

(***************************************************************************)
(* The callbacks.  A callback returns its values or raises; what it        *)
(* returns is a record with one field per output component.                *)
(***************************************************************************)
Ok(values) == [raised |-> "", value |-> values]

Failed(error) == [raised |-> error, value |-> Blank]

\* Series.astype(str).str.upper() of a cell of the Royalty__c column
str_upper(cell) ==
    CASE cell = "True" -> "TRUE"
      [] cell = "False" -> "FALSE"
      [] cell = NULL -> "NAN"
      [] OTHER -> cell

\* the filter block both filtered callbacks open with: a selection that is
\* empty, or whose column is missing, filters nothing
filter_products(df, cats, packs, royal) ==
    LET by_category ==
            IF cats # {} /\ HasColumns(df, {"Category__c"})
            THEN DataFrame(df.cols, SelectSeq(df.rows, LAMBDA r : r["Category__c"] \in cats))
            ELSE df
        by_packaging ==
            IF packs # {} /\ HasColumns(by_category, {"Packaging_Type__c"})
            THEN DataFrame(df.cols,
                    SelectSeq(by_category.rows, LAMBDA r : r["Packaging_Type__c"] \in packs))
            ELSE by_category
    IN IF royal = "Royalty Only" /\ HasColumns(by_packaging, {"Royalty__c"})
       THEN DataFrame(df.cols,
               SelectSeq(by_packaging.rows, LAMBDA r : str_upper(r["Royalty__c"]) = "TRUE"))
       ELSE IF royal = "Non-Royalty Only" /\ HasColumns(by_packaging, {"Royalty__c"})
       THEN DataFrame(df.cols,
               SelectSeq(by_packaging.rows, LAMBDA r : str_upper(r["Royalty__c"]) = "FALSE"))
       ELSE by_packaging

\* a KPI block computed over the products selected by the filters
kpis_of_selection(filtered_products) ==
    calculate_kpis(filtered_products, order_df, invoice_df, materials_df)

\* the dictionary the KPI block of executive_summary reads: the module's
shown_kpis(filtered_products) == kpis

\* the eight values the KPI template interpolates
kpi_html(k) ==
    <<format_currency(k.avg_sales_price), format_percentage(k.avg_gross_margin),
      format_currency(k.total_cogs), format_number(k.open_orders),
      format_currency(k.total_invoiced), format_currency(k.total_paid),
      format_currency(k.total_remaining), format_number(k.unique_materials)>>

executive_summary_of(filtered_products) ==
    Ok([summary_kpis |-> kpi_html(shown_kpis(filtered_products)),
        summary_chart1 |->
            IF ~empty(filtered_products) /\ HasColumns(filtered_products, {"Category__c"})
            THEN Figure("pie", value_counts(Column(filtered_products.rows, "Category__c")))
            ELSE None,
        summary_chart2 |->
            IF ~empty(invoice_df) /\ HasColumns(invoice_df, {"ccrz__Status__c"})
            THEN Figure("bar", value_counts(Column(invoice_df.rows, "ccrz__Status__c")))
            ELSE None])

executive_summary(cats, packs, royal) ==
    executive_summary_of(filter_products(product_df, cats, packs, royal))

\* the (Name, Category__c) pairs of a groupby on both columns, sorted
RECURSIVE SortPairs(_)
SortPairs(S) ==
    IF S = {} THEN <<>>
    ELSE LET m == CHOOSE x \in S : \A y \in S :
                    \/ TextRank(x[1]) < TextRank(y[1])
                    \/ x[1] = y[1] /\ TextRank(x[2]) <= TextRank(y[2])
         IN <<m>> \o SortPairs(S \ {m})

\* groupby(['Name', 'Category__c']).agg({'Total_Gallons': 'sum', 'Id':
\* 'count'}), renamed, sorted by volume, the first 20
sales_summary(sales_df) ==
    LET pairs == SortPairs({<<sales_df.rows[i]["Name"], sales_df.rows[i]["Category__c"]>> :
                              i \in {j \in DOMAIN sales_df.rows :
                                        /\ sales_df.rows[j]["Name"] # NULL
                                        /\ sales_df.rows[j]["Category__c"] # NULL}})
        members(p) == SelectSeq(sales_df.rows,
                        LAMBDA r : r["Name"] = p[1] /\ r["Category__c"] = p[2])
    IN head(sort_descending(
              [j \in DOMAIN pairs |->
                 ("Product" :> pairs[j][1]) @@ ("Category" :> pairs[j][2])
                 @@ ("Total Gallons" :> SumSeq(Column(members(pairs[j]), "Total_Gallons")))
                 @@ ("Count" :> Num(count_text(Column(members(pairs[j]), "Id"))))],
              "Total Gallons"), 20)

sales_analysis_of(filtered_products) ==
    LET has_sales == ~empty(filtered_products) /\ HasColumns(filtered_products, {"Net_Volume__c"})
        by_category == has_sales /\ HasColumns(filtered_products, {"Category__c"})
        summary == sales_summary(with_total_gallons(filtered_products))
        has_shipping == ~empty(order_df) /\ HasColumns(order_df, {"ccrz__ShipMethod__c"})
        counts == value_counts(Column(order_df.rows, "ccrz__ShipMethod__c"))
        ship_analysis ==
            DataFrame(<<"Shipping Method", "Count">>,
                [j \in DOMAIN counts |->
                    ("Shipping Method" :> counts[j].index) @@ ("Count" :> counts[j].count)])
    IN IF by_category /\ ~HasColumns(filtered_products, {"Name", "Id"})
       THEN Failed("KeyError")
       ELSE Ok([sales_chart1 |-> IF by_category THEN Figure("bar", head(summary, 10)) ELSE None,
                sales_table1 |->
                    IF by_category
                    THEN DataFrame(<<"Product", "Total Gallons", "Count">>,
                            [j \in DOMAIN head(summary, 10) |->
                                [c \in {"Product", "Total Gallons", "Count"} |-> summary[j][c]]])
                    ELSE NoResult,
                sales_chart2 |-> IF has_shipping THEN Figure("bar", ship_analysis.rows) ELSE None,
                sales_table2 |-> IF has_shipping THEN ship_analysis ELSE NoResult,
                sales_chart3 |->
                    IF ~empty(order_df) /\ HasColumns(order_df, {"Total_Cost__c"})
                    THEN Figure("histogram", Column(order_df.rows, "Total_Cost__c"))
                    ELSE None])

sales_analysis(cats, packs, royal) ==
    sales_analysis_of(filter_products(product_df, cats, packs, royal))

\* timeline['Month'] = pd.to_datetime(timeline[date_col]).dt.to_period('M');
\* the column holds timestamps since the load
with_month(df, date_col) ==
    assign(df, "Month", [i \in DOMAIN df.rows |-> to_period(df.rows[i][date_col], "M")])

\* the working table of the invoice timeline, none when the guard fails
invoice_timeline ==
    IF ~empty(invoice_df) /\ HasColumns(invoice_df, {"ccrz__DateIssued__c"})
    THEN with_month(invoice_df, "ccrz__DateIssued__c")
    ELSE NoResult

\* kpis['total_paid'] / kpis['total_invoiced'] * 100 if kpis['total_invoiced'] > 0 else 0
collection_rate(k) ==
    IF Lt(Num(0), k.total_invoiced)
    THEN Mul(TrueDiv(k.total_paid, k.total_invoiced), Num(100))
    ELSE Num(0)

invoice_analysis_of(timeline) ==
    LET months == SortInts({timeline.rows[i]["Month"] : i \in DOMAIN timeline.rows})
        of_month(p) == SelectSeq(timeline.rows, LAMBDA r : r["Month"] = p)
        monthly_invoices ==
            [j \in DOMAIN months |->
                [Month |-> PeriodText(months[j]),
                 sum |-> SumSeq(Column(of_month(months[j]), "ccrz__OriginalAmount__c")),
                 count |-> Num(count(Column(of_month(months[j]), "ccrz__OriginalAmount__c")))]]
        has_status == ~empty(invoice_df) /\ HasColumns(invoice_df, {"ccrz__Status__c"})
        statuses == TextKeys(invoice_df.rows, "ccrz__Status__c")
        of_status(s) == GroupRows(invoice_df, "ccrz__Status__c", s)
        status_summary ==
            [j \in DOMAIN statuses |->
                [ccrz__Status__c |-> statuses[j],
                 ccrz__OriginalAmount__c |->
                    round(SumSeq(Column(of_status(statuses[j]), "ccrz__OriginalAmount__c"))),
                 ccrz__PaidAmount__c |->
                    round(SumSeq(Column(of_status(statuses[j]), "ccrz__PaidAmount__c"))),
                 ccrz__RemainingAmount__c |->
                    round(SumSeq(Column(of_status(statuses[j]), "ccrz__RemainingAmount__c"))),
                 Id |-> Num(count_text(Column(of_status(statuses[j]), "Id")))]]
    IN IF has_status /\ ~HasColumns(invoice_df, {"ccrz__OriginalAmount__c", "ccrz__PaidAmount__c",
                                                 "ccrz__RemainingAmount__c", "Id"})
       THEN Failed("KeyError")
       ELSE Ok([inv_chart1 |->
                    IF timeline # NoResult /\ HasColumns(timeline, {"ccrz__OriginalAmount__c"})
                    THEN Figure("bar and scatter", monthly_invoices)
                    ELSE None,
                inv_chart2 |-> IF has_status THEN Figure("bar", status_summary) ELSE None,
                inv_summary |->
                    IF has_status
                    THEN <<ToString(Len(invoice_df.rows)),
                           format_currency(SeriesMean(Column(invoice_df.rows,
                                                             "ccrz__OriginalAmount__c"))),
                           format_percentage(collection_rate(kpis))>>
                    ELSE <<>>])

invoice_analysis == invoice_analysis_of(invoice_timeline)

\* groupby('Plant__c').agg({'MtlPartNum__c': 'nunique', 'QtyPer__c': 'sum',
\* 'Id': 'count'}), renamed; no table when the guard fails
plant_summary ==
    IF ~empty(materials_df) /\ HasColumns(materials_df, {"Plant__c", "MtlPartNum__c", "QtyPer__c", "Id"})
    THEN LET plants == TextKeys(materials_df.rows, "Plant__c")
             of_plant(k) == GroupRows(materials_df, "Plant__c", k)
         IN DataFrame(<<"Plant", "Unique Materials", "Total Quantity", "Total Records">>,
              [j \in DOMAIN plants |->
                 ("Plant" :> plants[j])
                 @@ ("Unique Materials" :>
                        Num(nunique_text(Column(of_plant(plants[j]), "MtlPartNum__c"))))
                 @@ ("Total Quantity" :> SumSeq(Column(of_plant(plants[j]), "QtyPer__c")))
                 @@ ("Total Records" :> Num(count_text(Column(of_plant(plants[j]), "Id"))))])
    ELSE NoResult

materials_analysis_of(table1) ==
    LET has_plant == ~empty(materials_df) /\ HasColumns(materials_df, {"Plant__c"})
        parts == TextKeys(materials_df.rows, "PartNum__c")
        parts_summary ==
            head(sort_descending(
                    [j \in DOMAIN parts |->
                        [index |-> parts[j],
                         QtyPer__c |-> SumSeq(Column(GroupRows(materials_df, "PartNum__c", parts[j]),
                                                     "QtyPer__c"))]],
                    "QtyPer__c"), 20)
        materials_timeline == with_month(materials_df, "CreatedDate")
        months == SortInts({materials_timeline.rows[i]["Month"] :
                               i \in DOMAIN materials_timeline.rows})
        monthly_materials ==
            [j \in DOMAIN months |->
                [Month |-> PeriodText(months[j]),
                 Count |-> Num(Len(SelectSeq(materials_timeline.rows,
                                             LAMBDA r : r["Month"] = months[j])))]]
    IN IF has_plant /\ ~HasColumns(materials_df, {"MtlPartNum__c", "QtyPer__c", "Id"})
       THEN Failed("KeyError")
       ELSE Ok([mat_chart1 |-> IF has_plant THEN Figure("bar", table1.rows) ELSE None,
                mat_table1 |-> IF has_plant THEN table1 ELSE NoResult,
                mat_chart2 |->
                    IF ~empty(materials_df) /\ HasColumns(materials_df, {"PartNum__c", "QtyPer__c"})
                    THEN Figure("bar", parts_summary)
                    ELSE None,
                mat_chart3 |->
                    IF ~empty(materials_df) /\ HasColumns(materials_df, {"CreatedDate"})
                    THEN Figure("line", monthly_materials)
                    ELSE None])

materials_analysis == materials_analysis_of(plant_summary)

\* a / b on Python integers: a float, or ZeroDivisionError for b = 0
ZeroDivisionError == [k |-> "ZeroDivisionError", n |-> 0, d |-> 1]

truediv(a, b) == IF b = 0 THEN ZeroDivisionError ELSE Rat(a, b)

\* a conversion rate without the guard on the number of orders
conversion_rate_unguarded(total_invoices, total_orders) ==
    LET ratio == truediv(total_invoices, total_orders)
    IN IF ratio = ZeroDivisionError THEN ratio ELSE Mul(ratio, Num(100))

\* (total_invoices / total_orders) * 100 if total_orders > 0 else 0
conversion_rate(total_invoices, total_orders) ==
    IF total_orders > 0
    THEN Mul(truediv(total_invoices, total_orders), Num(100))
    ELSE Num(0)

\* total_orders = len(order_df); total_invoices = len(invoice_df)
totals == [total_orders |-> Len(order_df.rows), total_invoices |-> Len(invoice_df.rows)]

cross_analysis_of(counted) ==
    LET rate == conversion_rate(counted.total_invoices, counted.total_orders)
        category_stats == value_counts(Column(product_df.rows, "Category__c"))
        per_product == truediv(Len(materials_df.rows), Len(product_df.rows))
    IN IF rate = ZeroDivisionError
       THEN Failed("ZeroDivisionError")
       ELSE Ok([cross_summary |->
                    <<ToString(counted.total_orders), ToString(counted.total_invoices),
                      format_percentage(rate)>>,
                cross_chart1 |->
                    IF ~empty(product_df) /\ HasColumns(product_df, {"Category__c"})
                    THEN Figure("bar",
                            [j \in DOMAIN category_stats |->
                                ("Category" :> category_stats[j].index)
                                @@ ("Product Count" :> category_stats[j].count)
                                @@ ("Avg Materials per Product" :> per_product)])
                    ELSE None])

cross_analysis == cross_analysis_of(totals)

(***************************************************************************)
(* The page.  An event of the page queues one invocation per listener,     *)
(* with the values the input components hold at that moment; the queue     *)
(* starts invocations in the order of their arrival and lets them run side *)
(* by side.  A callback runs in two steps: up to its first working table,  *)
(* and from there to its return, whose values go to its output components. *)
(***************************************************************************)
\* filters = [categories, packaging_types, royalty_filter]
filters ==
    [categories |-> categories, packaging_types |-> packaging_types,
     royalty_filter |-> royalty_filter]

\* the callbacks that are given the filters as inputs
Filtered == {"executive_summary", "sales_analysis"}

\* a wiring in which only the categories dropdown refreshes the sales tab
change_listeners_of_categories(component) ==
    IF component = "categories"
    THEN <<"executive_summary", "sales_analysis">>
    ELSE <<"executive_summary">>

\* component.change(update_executive_summary, ...) and
\* component.change(update_sales_analysis, ...), for each of the three
change_listeners(component) == <<"executive_summary", "sales_analysis">>

\* the five demo.load(...) registrations
load_listeners ==
    <<"executive_summary", "sales_analysis", "invoice_analysis", "materials_analysis",
      "cross_analysis">>

Call(fn, args) == [fn |-> fn, args |-> args, pc |-> "queued", local |-> NoResult]

\* the invocations an event queues, given the filter values it carries
Queued(listeners, current) ==
    [j \in DOMAIN listeners |->
        Call(listeners[j], IF listeners[j] \in Filtered THEN current ELSE NoArgs)]

\* the page is opened: demo.load
Load ==
    /\ events = 0
    /\ events' = 1
    /\ calls' = calls \o Queued(load_listeners, filters)
    /\ UNCHANGED <<order_df, analysis_vars, product_df, invoice_df, materials_df, kpis,
                   categories, packaging_types, royalty_filter, returned, outputs>>

\* a change event can be sent once the page is loaded; the model sends
\* MaxChanges of them, each while fewer than MaxPending invocations of
\* earlier events are still queued or running
CanChange ==
    /\ events \in 1..MaxChanges
    /\ Len(calls) < MaxPending

\* the selections one click away in a multiselect dropdown: an item of the
\* choices is added or removed
Toggled(selection, items) ==
    {selection \cup {x} : x \in items \ selection} \cup {selection \ {x} : x \in selection}

\* the user picks another set of categories
ChangeCategories ==
    /\ CanChange
    /\ events' = events + 1
    /\ \E selection \in Toggled(categories, choices(product_df, "Category__c")) :
          /\ categories' = selection
          /\ calls' = calls \o Queued(change_listeners("categories"),
                                      [filters EXCEPT !.categories = selection])
    /\ UNCHANGED <<order_df, analysis_vars, product_df, invoice_df, materials_df, kpis,
                   packaging_types, royalty_filter, returned, outputs>>

\* the user picks another set of packaging types
ChangePackagingTypes ==
    /\ CanChange
    /\ events' = events + 1
    /\ \E selection \in Toggled(packaging_types, choices(product_df, "Packaging_Type__c")) :
          /\ packaging_types' = selection
          /\ calls' = calls \o Queued(change_listeners("packaging_types"),
                                      [filters EXCEPT !.packaging_types = selection])
    /\ UNCHANGED <<order_df, analysis_vars, product_df, invoice_df, materials_df, kpis,
                   categories, royalty_filter, returned, outputs>>

\* the user picks another royalty option
ChangeRoyaltyFilter ==
    /\ CanChange
    /\ events' = events + 1
    /\ \E selection \in {"All", "Royalty Only", "Non-Royalty Only"} :
          /\ selection # royalty_filter
          /\ royalty_filter' = selection
          /\ calls' = calls \o Queued(change_listeners("royalty_filter"),
                                      [filters EXCEPT !.royalty_filter = selection])
    /\ UNCHANGED <<order_df, analysis_vars, product_df, invoice_df, materials_df, kpis,
                   categories, packaging_types, returned, outputs>>

\* the queue starts the invocations in the order of their arrival
CanStart(i) == \A j \in 1..(i - 1) : calls[j].pc # "queued"

Remove(s, i) == SubSeq(s, 1, i - 1) \o SubSeq(s, i + 1, Len(s))

\* what the first step of a callback leaves it with: the filtered copy of
\* the products, the invoice timeline, the plant summary, the two totals
working(call) ==
    CASE call.fn \in Filtered ->
            filter_products(copy(product_df).table, call.args.categories,
                            call.args.packaging_types, call.args.royalty_filter)
      [] call.fn = "invoice_analysis" -> invoice_timeline
      [] call.fn = "materials_analysis" -> plant_summary
      [] call.fn = "cross_analysis" -> totals

\* the first step of invocation i
Begin(i) ==
    /\ CanStart(i)
    /\ calls' = [calls EXCEPT ![i].pc = "running", ![i].local = working(calls[i])]
    /\ UNCHANGED <<returned, outputs>>

\* the last step of invocation i: its values reach its output components
\* unless it raised
End(i, outcome) ==
    /\ calls' = Remove(calls, i)
    /\ returned' = [fn |-> calls[i].fn, args |-> calls[i].args,
                    raised |-> outcome.raised, value |-> outcome.value]
    /\ outputs' = IF outcome.raised = ""
                  THEN [outputs EXCEPT ![calls[i].fn] = outcome.value]
                  ELSE outputs

ExecutiveSummary ==
    \E i \in DOMAIN calls :
        /\ calls[i].fn = "executive_summary"
        /\ UNCHANGED <<order_df, analysis_vars, product_df, invoice_df, materials_df, kpis,
                       categories, packaging_types, royalty_filter, events>>
        /\ IF calls[i].pc = "queued"
           THEN Begin(i)
           ELSE End(i, executive_summary_of(calls[i].local))

SalesAnalysis ==
    \E i \in DOMAIN calls :
        /\ calls[i].fn = "sales_analysis"
        /\ UNCHANGED <<order_df, analysis_vars, invoice_df, materials_df, kpis,
                       categories, packaging_types, royalty_filter, events>>
        /\ IF calls[i].pc = "queued"
           THEN /\ Begin(i)
                /\ UNCHANGED product_df
           ELSE LET sales_df == copy(calls[i].local)
                IN /\ product_df' =
                        IF ~empty(calls[i].local) /\ HasColumns(calls[i].local, {"Net_Volume__c"})
                        THEN AfterWrites(product_df, sales_df, with_total_gallons(sales_df.table))
                        ELSE product_df
                   /\ End(i, sales_analysis_of(calls[i].local))

InvoiceAnalysis ==
    \E i \in DOMAIN calls :
        /\ calls[i].fn = "invoice_analysis"
        /\ UNCHANGED <<order_df, analysis_vars, product_df, materials_df, kpis,
                       categories, packaging_types, royalty_filter, events>>
        /\ IF calls[i].pc = "queued"
           THEN LET timeline == copy(invoice_df)
                IN /\ invoice_df' =
                        IF ~empty(invoice_df) /\ HasColumns(invoice_df, {"ccrz__DateIssued__c"})
                        THEN AfterWrites(invoice_df, timeline,
                                         with_month(timeline.table, "ccrz__DateIssued__c"))
                        ELSE invoice_df
                   /\ Begin(i)
           ELSE /\ UNCHANGED invoice_df
                /\ End(i, invoice_analysis_of(calls[i].local))

MaterialsAnalysis ==
    \E i \in DOMAIN calls :
        /\ calls[i].fn = "materials_analysis"
        /\ UNCHANGED <<order_df, analysis_vars, product_df, invoice_df, kpis,
                       categories, packaging_types, royalty_filter, events>>
        /\ IF calls[i].pc = "queued"
           THEN /\ UNCHANGED materials_df
                /\ Begin(i)
           ELSE LET materials_timeline == copy(materials_df)
                IN /\ materials_df' =
                        IF ~empty(materials_df) /\ HasColumns(materials_df, {"CreatedDate"})
                        THEN AfterWrites(materials_df, materials_timeline,
                                         with_month(materials_timeline.table, "CreatedDate"))
                        ELSE materials_df
                   /\ End(i, materials_analysis_of(calls[i].local))

CrossAnalysis ==
    \E i \in DOMAIN calls :
        /\ calls[i].fn = "cross_analysis"
        /\ UNCHANGED <<order_df, analysis_vars, product_df, invoice_df, materials_df, kpis,
                       categories, packaging_types, royalty_filter, events>>
        /\ IF calls[i].pc = "queued"
           THEN Begin(i)
           ELSE End(i, cross_analysis_of(calls[i].local))

\* the module has been imported: the files were read, or reading them
\* raised and the except branch made the four tables empty and the KPIs 0;
\* the dropdowns start with every choice selected.  The files vary one
\* source at a time: the products, or the orders, invoices and materials.
InitDash ==
    /\ breaks = <<>>
    /\ value = NaN
    /\ window = DefaultWindow
    /\ freq = DefaultFreq
    /\ Idle
    /\ \/ \E products \in ProductFiles, office \in BackOfficeFiles :
             LET loaded == load_data(products, office.orders, office.invoices,
                                     office.materials)
             IN /\ products = FullProductFile \/ office = FullBackOffice
                /\ product_df = loaded.product_df
                /\ order_df = loaded.order_df
                /\ invoice_df = loaded.invoice_df
                /\ materials_df = loaded.materials_df
                /\ kpis = calculate_kpis(loaded.product_df, loaded.order_df,
                                         loaded.invoice_df, loaded.materials_df)
       \/ /\ product_df = NoResult
          /\ order_df = NoResult
          /\ invoice_df = NoResult
          /\ materials_df = NoResult
          /\ kpis = ZeroKpis
    /\ categories = choices(product_df, "Category__c")
    /\ packaging_types = choices(product_df, "Packaging_Type__c")
    /\ royalty_filter = "All"
    /\ events = 0
    /\ calls = <<>>
    /\ returned = NoCall
    /\ outputs = NoOutputs

NextDash ==
    \/ Load
    \/ ChangeCategories
    \/ ChangePackagingTypes
    \/ ChangeRoyaltyFilter
    \/ ExecutiveSummary
    \/ SalesAnalysis
    \/ InvoiceAnalysis
    \/ MaterialsAnalysis
    \/ CrossAnalysis

SpecDash == InitDash /\ [][NextDash]_vars

\* what a step of a callback does to the queue: a running invocation
\* leaves it, or the next queued one starts
Serve ==
    \E i \in DOMAIN calls :
        \/ calls[i].pc = "running" /\ calls' = Remove(calls, i)
        \/ calls[i].pc = "queued" /\ Begin(i)

\* the workers of the page keep serving the queue: the callbacks are
\* synchronous functions that terminate, so an invocation that can take a
\* step is not left waiting for ever
SpecDashServed == InitDash /\ [][NextDash]_vars /\ WF_calls(Serve)

(***************************************************************************)
(* Properties of the grouped aggregations.                                 *)
(***************************************************************************)
GroupedSums == {"sales_by_product", "cogs_by_product", "cogs_breakdown_by_material"}

Aggregations ==
    GroupedSums \cup {"order_counts", "avg_sales_price", "avg_margin_by_product",
                      "buyback_impact"}

\* the key column a transform was called with, and the one its output carries
KeyColOf(name) == IF name = "cogs_breakdown_by_material" THEN "raw_material" ELSE "sku"

Returned(names) == op \in names /\ raised = ""

InputKeys == {order_df.rows[i][KeyColOf(op)] : i \in DOMAIN order_df.rows}
OutputKeys == {result.rows[i][KeyColOf(op)] : i \in DOMAIN result.rows}

\* the input rows (by position) whose key is k
RowsOfKey(k) == {i \in DOMAIN order_df.rows : order_df.rows[i][KeyColOf(op)] = k}

\* the sum of the non-null cells of column col over the input rows at positions I
RECURSIVE TotalOver(_, _)
TotalOver(I, col) ==
    IF I = {} THEN Num(0)
    ELSE LET i == CHOOSE j \in I : TRUE
             c == order_df.rows[i][col]
         IN IF isna(c) THEN TotalOver(I \ {i}, col)
            ELSE Add(c, TotalOver(I \ {i}, col))

\* the sum of column col of the result
RECURSIVE ResultTotal(_, _)
ResultTotal(I, col) ==
    IF I = {} THEN Num(0)
    ELSE LET i == CHOOSE j \in I : TRUE
         IN Add(result.rows[i][col], ResultTotal(I \ {i}, col))

\* C1: on an input without null keys, the keys of a grouped-sum output are
\* exactly the distinct keys of the input: none invented, none dropped.
C1_KeysPreserved ==
    (Returned(GroupedSums) /\ NULL \notin InputKeys) => OutputKeys = InputKeys

C1_Witness ==
    /\ Returned(GroupedSums)
    /\ NULL \notin InputKeys
    /\ Len(order_df.rows) = 2
    /\ Cardinality(InputKeys) = 1

\* the (input column, output column) pairs a grouped sum adds up
SummedColumns ==
    CASE op = "sales_by_product" -> {<<"qty", "total_units">>, <<"vol", "total_volume">>}
      [] op = "cogs_by_product" -> {<<"cost", "total_cogs">>}
      [] OTHER -> {}

\* C2: each output row of sales_by_product (cogs_by_product) carries the sums
\* of qty and vol (cost) over exactly the input rows of its key, and without
\* null keys the output's column totals equal the input's column totals.
C2_GroupSums ==
    Returned({"sales_by_product", "cogs_by_product"}) =>
        \A p \in SummedColumns :
            /\ \A i \in DOMAIN result.rows :
                  result.rows[i][p[2]] = TotalOver(RowsOfKey(result.rows[i]["sku"]), p[1])
            /\ NULL \notin InputKeys =>
                  ResultTotal(DOMAIN result.rows, p[2]) = TotalOver(DOMAIN order_df.rows, p[1])

C2_Witness ==
    /\ Returned({"sales_by_product"})
    /\ Len(order_df.rows) = 2
    /\ Len(result.rows) = 1
    /\ result.rows[1]["total_units"] = Num(3)
    /\ result.rows[1]["total_volume"] = Num(6)

\* C3: in the output of every aggregation each key appears in at most one
\* row, and the output has no more rows than the input.
C3_Reduction ==
    Returned(Aggregations) =>
        /\ \A i, j \in DOMAIN result.rows :
              result.rows[i][KeyColOf(op)] = result.rows[j][KeyColOf(op)] => i = j
        /\ Len(result.rows) <= Len(order_df.rows)

C3_Witness ==
    /\ Returned({"buyback_impact"})
    /\ Len(order_df.rows) = 2
    /\ Len(result.rows) = 1
    /\ result.rows[1]["buyback_count"] = 2

(***************************************************************************)
(* Properties of the distinct count.                                       *)
(***************************************************************************)
OrderIdsOf(k) == {order_df.rows[i]["order_id"] : i \in RowsOfKey(k)}

\* no two rows of the group of k carry the same order id cell
NoRepeatedId(k) ==
    \A i, j \in RowsOfKey(k) :
        order_df.rows[i]["order_id"] = order_df.rows[j]["order_id"] => i = j

NonNullRowsOf(k) == {i \in RowsOfKey(k) : ~isna(order_df.rows[i]["order_id"])}

\* C4 as stated: order_count never exceeds the rows of the group and equals
\* them whenever no order id repeats in the group, null ids included.
C4_AsStated ==
    Returned({"order_counts"}) =>
        \A i \in DOMAIN result.rows :
            LET k == result.rows[i]["sku"]
            IN /\ result.rows[i]["order_count"] <= Cardinality(RowsOfKey(k))
               /\ NoRepeatedId(k) =>
                     result.rows[i]["order_count"] = Cardinality(RowsOfKey(k))

\* C4, amended: order_count never exceeds the rows of the group; when no
\* order id repeats in the group it equals the number of rows whose order id
\* is not null, hence the row count exactly when the group has no null id.
C4_DistinctCountBound ==
    Returned({"order_counts"}) =>
        \A i \in DOMAIN result.rows :
            LET k == result.rows[i]["sku"]
            IN /\ result.rows[i]["order_count"] <= Cardinality(RowsOfKey(k))
               /\ NoRepeatedId(k) =>
                     /\ result.rows[i]["order_count"] = Cardinality(NonNullRowsOf(k))
                     /\ (result.rows[i]["order_count"] = Cardinality(RowsOfKey(k)))
                            <=> (NaN \notin OrderIdsOf(k))

C4_Witness ==
    /\ Returned({"order_counts"})
    /\ Len(result.rows) = 1
    /\ Cardinality(RowsOfKey(result.rows[1]["sku"])) = 2
    /\ NoRepeatedId(result.rows[1]["sku"])
    /\ NaN \in OrderIdsOf(result.rows[1]["sku"])
    /\ result.rows[1]["order_count"] = 1

\* the table with a copy of its row i appended
WithDuplicate(df, i) == DataFrame(df.cols, Append(df.rows, df.rows[i]))

\* C5: order_count of a sku is the number of distinct (non-null) order ids
\* among its rows, so appending a copy of an existing row changes nothing.
C5_Deduplicates ==
    Returned({"order_counts"}) =>
        /\ \A i \in DOMAIN result.rows :
              result.rows[i]["order_count"]
                  = Cardinality(OrderIdsOf(result.rows[i]["sku"]) \ {NaN})
        /\ \A i \in DOMAIN order_df.rows :
              order_counts(WithDuplicate(order_df, i), "sku", "order_id") = result

C5_Witness ==
    /\ Returned({"order_counts"})
    /\ Len(order_df.rows) = 2
    /\ order_df.rows[1] = order_df.rows[2]
    /\ ~isna(order_df.rows[1]["order_id"])
    /\ Len(result.rows) = 1
    /\ result.rows[1]["order_count"] = 1

(***************************************************************************)
(* Properties of the ratio metrics.                                        *)
(***************************************************************************)
HasRatioColumns ==
    CASE op = "avg_sales_price" -> HasColumns(order_df, {"sku", "rev", "qty"})
      [] op = "avg_margin_by_product" -> HasColumns(order_df, {"sku", "rev", "cost"})
      [] op = "discounts_by_order" ->
            HasColumns(order_df, {"order_id", "list_price", "unit_price"})
      [] OTHER -> FALSE

\* the denominator of the ratio in output row i, and the ratio itself
Denominator(i) ==
    CASE op = "avg_sales_price" -> TotalOver(RowsOfKey(result.rows[i]["sku"]), "qty")
      [] op = "avg_margin_by_product" -> TotalOver(RowsOfKey(result.rows[i]["sku"]), "rev")
      [] op = "discounts_by_order" -> order_df.rows[i]["list_price"]

Ratio(i) ==
    CASE op = "avg_sales_price" -> result.rows[i]["avg_sales_price"]
      [] op = "avg_margin_by_product" -> result.rows[i]["avg_margin_pct"]
      [] op = "discounts_by_order" -> result.rows[i]["discount_pct"]

\* C6: a ratio metric whose denominator is 0 is the undefined marker NaN,
\* whatever its numerator, and the call does not raise.
C6_ZeroDenominatorIsNaN ==
    HasRatioColumns =>
        /\ raised = ""
        /\ \A i \in DOMAIN result.rows : IsZero(Denominator(i)) => Ratio(i) = NaN

\* what the code does instead: 0/0 is NaN, x/0 is the infinity of x's sign
C6_ZeroDenominatorObserved ==
    /\ op = "discounts_by_order"
    /\ raised = ""
    /\ \E i \in DOMAIN result.rows : IsZero(Denominator(i)) /\ Ratio(i) = NegInf

(***************************************************************************)
(* Properties of the formatters.                                           *)
(***************************************************************************)
Formatters == {"format_currency", "format_percentage", "format_number"}

\* the text the called formatter produces for the value 0
TextOfZero ==
    CASE op = "format_currency" -> format_currency(Num(0))
      [] op = "format_percentage" -> format_percentage(Num(0))
      [] op = "format_number" -> format_number(Num(0))

C7_FiniteValuesFormatted ==
    /\ format_currency(Num(0)) = "$0.00"
    /\ format_percentage(Num(0)) = "0.0%"
    /\ format_number(Num(0)) = "0"
    /\ format_currency(Rat(2469135, 2)) = "$1,234,567.50"
    /\ format_currency(Rat(-1, 8)) = "$-0.12"
    /\ format_currency(Rat(3, 8)) = "$0.38"
    /\ format_currency(PosInf) = "$inf"
    /\ format_percentage(Rat(-3, 2)) = "-1.5%"
    /\ format_percentage(Rat(1, 16)) = "0.1%"
    /\ format_number(Rat(5, 2)) = "2"
    /\ format_number(Rat(3, 2)) = "2"
    /\ format_number(Num(3000)) = "3,000"
    /\ format_number(NegInf) = "-inf"

(***************************************************************************)
(* Properties of the quantity tiers.                                       *)
(***************************************************************************)
Called(name) == op = name

\* the integer cells of the quantity column, and the largest of them
Quantities ==
    {order_df.rows[i]["qty"].n : i \in {j \in DOMAIN order_df.rows :
                                          ~isna(order_df.rows[j]["qty"])}}

MaxQuantity == CHOOSE m \in Quantities : \A q \in Quantities : q <= m

\* [0] + breaks + [max quantity + 1], as integers
ExpectedBins == <<0>> \o breaks \o <<MaxQuantity + 1>>

\* the tier label the working copy gives row i, NULL for no tier
TierOfRow(i) == local_df.rows[i]["qty_tier"]

\* the label of tier t as the output lists it
LabelOfTier(t) == TierLabels(order_df, "qty", bins)[t]

\* C8: a row with quantity q is in tier i exactly when bins[i] <= q <
\* bins[i+1], with bins = [0] + breaks + [max quantity + 1]: tiers are
\* half-open and a quantity equal to a threshold is in the higher tier.
C8_HalfOpenTiers ==
    (Called("qty_break_discounts") /\ raised = "") =>
        /\ Quantities # {} => bins = [t \in DOMAIN ExpectedBins |-> Num(ExpectedBins[t])]
        /\ \A i \in DOMAIN order_df.rows : \A t \in 1..(Len(bins) - 1) :
              LET q == order_df.rows[i]["qty"]
              IN (TierOfRow(i) = LabelOfTier(t))
                    <=> (~isna(q) /\ ~isna(bins[t + 1])
                         /\ bins[t].n <= q.n /\ q.n < bins[t + 1].n)

\* breaks [1, 2] with maximum 3: the tiers are [0,1), [1,2), [2,4), and a
\* row with quantity 2 is in the third
C8_Witness ==
    /\ Called("qty_break_discounts")
    /\ raised = ""
    /\ breaks = <<1, 2>>
    /\ bins = <<Num(0), Num(1), Num(2), Num(4)>>
    /\ \E i \in DOMAIN order_df.rows :
          /\ order_df.rows[i]["qty"] = Num(2)
          /\ TierOfRow(i) = "2-3"
          /\ TierOfRow(i) = result.rows[3]["qty_tier"]

StrictlyAscending(s) == \A i \in 1..(Len(s) - 1) : s[i] < s[i + 1]

NonNegative(s) == \A i \in DOMAIN s : s[i] >= 0

\* C9: for a non-empty table and strictly ascending, non-negative breaks
\* (a last threshold above the maximum quantity and a threshold 0 included)
\* the call completes and the maximum quantity is in the final bucket.
\* Stated for the tables that hold at least one non-null quantity.
C9_ValidBreaksAccepted ==
    (Called("qty_break_discounts") /\ Quantities # {}
        /\ StrictlyAscending(breaks) /\ NonNegative(breaks)) =>
        /\ raised = ""
        /\ \A i \in DOMAIN order_df.rows :
              order_df.rows[i]["qty"] = Num(MaxQuantity) =>
                  TierOfRow(i) = LabelOfTier(Len(bins) - 1)

\* C10 as stated: a breaks list that is not ascending, or that is empty,
\* makes the call raise instead of returning a result.  Stated for the
\* tables that hold at least one non-null quantity.
C10_MalformedBreaksRaise ==
    (Called("qty_break_discounts") /\ Quantities # {}
        /\ (breaks = <<>> \/ ~StrictlyAscending(breaks))) =>
        raised # ""

\* C10, amended: a breaks list that is not strictly ascending makes the call
\* raise ValueError and return nothing; an empty list is accepted: with
\* some non-negative quantity in the table the call returns the single
\* tier [0, max + 1).
C10_UnorderedBreaksRaise ==
    Called("qty_break_discounts") =>
        /\ ~StrictlyAscending(breaks) => (raised = "ValueError" /\ result = NoResult)
        /\ (breaks = <<>> /\ Quantities # {} /\ MaxQuantity >= 0) =>
              /\ raised = ""
              /\ bins = <<Num(0), Num(MaxQuantity + 1)>>
              /\ Len(result.rows) = 1

C10_Witness ==
    /\ Called("qty_break_discounts")
    /\ breaks = <<2, 1>>
    /\ Len(order_df.rows) = 2
    /\ Quantities = {3}
    /\ raised = "ValueError"

(***************************************************************************)
(* Properties of the tier averages.                                        *)
(***************************************************************************)
\* the input rows (by position) the working copy assigns to the tier label
RowsOfTier(label) == {i \in DOMAIN local_df.rows : TierOfRow(i) = label}

\* (list_price - unit_price) / list_price of input row i
DiscountOf(i) ==
    TrueDiv(Sub(order_df.rows[i]["list_price"], order_df.rows[i]["unit_price"]),
            order_df.rows[i]["list_price"])

RECURSIVE DiscountTotal(_)
DiscountTotal(I) ==
    IF I = {} THEN Num(0)
    ELSE LET i == CHOOSE j \in I : TRUE
         IN Add(DiscountOf(i), DiscountTotal(I \ {i}))

\* C11: the avg_discount of each tier of the output is the arithmetic mean
\* of (list_price - unit_price) / list_price over exactly the rows assigned
\* to that tier: the total of their discounts divided by their number.  A
\* tier listed without any row has no average (NaN).
C11_TierAverages ==
    (Called("qty_break_discounts") /\ raised = "") =>
        \A j \in DOMAIN result.rows :
            LET members == RowsOfTier(result.rows[j]["qty_tier"])
                avg == result.rows[j]["avg_discount"]
            IN IF members = {} THEN isna(avg)
               ELSE /\ IsFinite(avg)
                    /\ Mul(avg, Num(Cardinality(members))) = DiscountTotal(members)

\* two rows of one tier with discounts 1/2 and 3/4 average 5/8, and rows
\* below and at the threshold 1 give the first tier 1/2 and the last 3/4
C11_Witness ==
    /\ Called("qty_break_discounts")
    /\ raised = ""
    /\ Len(order_df.rows) = 2
    /\ \/ /\ breaks = <<>>
          /\ Len(result.rows) = 1
          /\ {DiscountOf(1), DiscountOf(2)} = {Rat(1, 2), Rat(3, 4)}
          /\ result.rows[1]["avg_discount"] = Rat(5, 8)
       \/ /\ breaks = <<1>>
          /\ order_df.rows[1] = [qty |-> Num(0), list_price |-> Num(2), unit_price |-> Num(1)]
          /\ order_df.rows[2] = [qty |-> Num(3), list_price |-> Num(4), unit_price |-> Num(1)]
          /\ Len(result.rows) = 2
          /\ result.rows[1]["avg_discount"] = Rat(1, 2)
          /\ result.rows[2]["avg_discount"] = Rat(3, 4)

(***************************************************************************)
(* Properties of the rolling average.                                      *)
(***************************************************************************)
\* the input rows (by position) of sku k
SeriesOf(k) == {i \in DOMAIN order_df.rows : order_df.rows[i]["sku"] = k}

\* the timestamp of input row i
StampOf(i) == to_datetime(order_df.rows[i]["date"])

\* no two input rows share their (sku, date) pair
DistinctPairs ==
    \A i, j \in DOMAIN order_df.rows :
        (i # j /\ order_df.rows[i]["sku"] = order_df.rows[j]["sku"])
            => StampOf(i) # StampOf(j)

\* C12: the number of rows moving_avg_volume returns equals the number of
\* input rows, for every input table, tables in which rows share their
\* (sku, date) pair included.
C12_RowCountPreserved ==
    (Called("moving_avg_volume") /\ raised = "") =>
        Len(result.rows) = Len(order_df.rows)

\* the row count is kept when the (sku, date) pairs are distinct, and a
\* group shorter than the window keeps its rows
C12_RowCountOfDistinctPairs ==
    (Called("moving_avg_volume") /\ raised = "" /\ DistinctPairs) =>
        /\ Len(result.rows) = Len(order_df.rows)
        /\ \A k \in {"A", "B"} :
              Cardinality({j \in DOMAIN result.rows : result.rows[j]["sku"] = k})
                  = Cardinality(SeriesOf(k))

\* the rows of sku k that are among the last `window` at or before timestamp t
Trailing(k, t) ==
    {i \in SeriesOf(k) :
        /\ StampOf(i) <= t
        /\ Cardinality({j \in SeriesOf(k) : StampOf(i) < StampOf(j) /\ StampOf(j) <= t})
              < window}

\* the rows of sku k at or before timestamp t
UpTo(k, t) == {i \in SeriesOf(k) : StampOf(i) <= t}

\* the value of the result row is the mean of column vol over input rows I
IsMeanOver(row, I) ==
    /\ \A i \in I : ~isna(order_df.rows[i]["vol"])
    /\ Mul(row["rolling_avg_volume"], Num(Cardinality(I))) = TotalOver(I, "vol")

\* the volume of the result row is that of an input row of its sku and date
OwnVolume(row) ==
    \E i \in SeriesOf(row["sku"]) :
        StampOf(i) = row["date"] /\ order_df.rows[i]["vol"] = row["vol"]

\* C13: every defined rolling_avg_volume is the mean of vol over the
\* trailing `window` rows of the same sku ending at that row in
\* chronological order, whatever the input order.  With a window of one
\* row that mean is the row's own volume.
C13_TrailingMean ==
    (Called("moving_avg_volume") /\ raised = "") =>
        \A j \in DOMAIN result.rows :
            LET row == result.rows[j]
            IN ~isna(row["rolling_avg_volume"]) =>
                  /\ OwnVolume(row)
                  /\ window = 1 => row["rolling_avg_volume"] = row["vol"]
                  /\ DistinctPairs =>
                        /\ Cardinality(Trailing(row["sku"], row["date"])) = window
                        /\ IsMeanOver(row, Trailing(row["sku"], row["date"]))

\* the same, for the tables whose (sku, date) pairs are distinct
C13_TrailingMeanOfDistinctPairs ==
    (Called("moving_avg_volume") /\ raised = "" /\ DistinctPairs) =>
        \A j \in DOMAIN result.rows :
            LET row == result.rows[j]
            IN ~isna(row["rolling_avg_volume"]) =>
                  /\ OwnVolume(row)
                  /\ Cardinality(Trailing(row["sku"], row["date"])) = window
                  /\ IsMeanOver(row, Trailing(row["sku"], row["date"]))

\* a result row in the first window-1 rows of its group: fewer than
\* `window` rows of its sku are at or before its date
InPartialWindow(row) ==
    /\ row["sku"] # NULL
    /\ Cardinality(UpTo(row["sku"], row["date"])) < window

\* C14 as stated: the first window-1 rows of a group carry the mean of the
\* rows of the group up to them.  Stated for the tables whose (sku, date)
\* pairs are distinct.
C14_PartialWindowMean ==
    (Called("moving_avg_volume") /\ raised = "" /\ DistinctPairs) =>
        \A j \in DOMAIN result.rows :
            LET row == result.rows[j]
            IN (InPartialWindow(row) /\ ~isna(row["vol"])) =>
                  IsMeanOver(row, UpTo(row["sku"], row["date"]))

\* C14, amended: a row with fewer than `window` rows of its sku at or
\* before its date (the first window-1 rows of a group) has an undefined
\* (NaN) rolling_avg_volume: no partial window is averaged.
C14_PartialWindowUndefined ==
    (Called("moving_avg_volume") /\ raised = "") =>
        \A j \in DOMAIN result.rows :
            InPartialWindow(result.rows[j]) => isna(result.rows[j]["rolling_avg_volume"])

\* window 2 and two months of sku A, the later one first in the input: the
\* earlier month has no value and the later one the mean of the two
C14_Witness ==
    /\ Called("moving_avg_volume")
    /\ raised = ""
    /\ window = 2
    /\ Len(order_df.rows) = 2
    /\ order_df.rows[1] = [sku |-> "A", date |-> Month(2025, 1), vol |-> Num(3)]
    /\ order_df.rows[2] = [sku |-> "A", date |-> Month(2024, 12), vol |-> Num(1)]
    /\ Len(result.rows) = 2
    /\ result.rows[1]["vol"] = Num(1)
    /\ isna(result.rows[1]["rolling_avg_volume"])
    /\ result.rows[2]["rolling_avg_volume"] = Num(2)

(***************************************************************************)
(* Properties of the period-over-period report.                            *)
(***************************************************************************)
\* the period that holds a calendar month: quarters or months since year 0
PeriodOf(cell, period_freq) ==
    IF period_freq = "Q" THEN 4 * cell.y + (cell.m - 1) \div 3
    ELSE 12 * cell.y + (cell.m - 1)

\* the input rows (by position) of sku k in period p
RowsOfPair(k, p) ==
    {i \in SeriesOf(k) : PeriodOf(order_df.rows[i]["date"], freq) = p}

\* the periods in which the input holds a row of sku k
PresentPeriods(k, period_freq) ==
    {PeriodOf(order_df.rows[i]["date"], period_freq) : i \in SeriesOf(k)}

\* the periods of sku k present before period p, and the last of them
EarlierPeriods(k, p) == {q \in PresentPeriods(k, freq) : q < p}

PrecedingPeriod(k, p) ==
    CHOOSE q \in EarlierPeriods(k, p) : \A e \in EarlierPeriods(k, p) : e <= q

\* C15: on every row that is not the first period of its sku, prev_volume
\* is the summed volume of the last period before it that is present for
\* the same sku (absent periods are skipped, not filled with zero), delta
\* is volume - prev_volume and pct_change is delta / prev_volume * 100.
C15_PreviousPresentPeriod ==
    (Called("churn_report") /\ raised = "") =>
        \A j \in DOMAIN result.rows :
            LET row == result.rows[j]
                k == row["sku"]
            IN EarlierPeriods(k, row["period"]) # {} =>
                  /\ row["prev_volume"]
                        = TotalOver(RowsOfPair(k, PrecedingPeriod(k, row["period"])), "vol")
                  /\ row["delta"] = Sub(row["vol"], row["prev_volume"])
                  /\ row["pct_change"]
                        = Mul(TrueDiv(row["delta"], row["prev_volume"]), Num(100))

\* sku A sells 100 in 2024Q4 and 150 in 2025Q3 while sku B sells in the
\* quarter between: the row of A in 2025Q3 is compared with 2024Q4
C15_Witness ==
    /\ Called("churn_report")
    /\ raised = ""
    /\ freq = "Q"
    /\ order_df.rows = <<[sku |-> "A", date |-> Month(2025, 8), vol |-> Num(150)],
                         [sku |-> "B", date |-> Month(2025, 1), vol |-> Num(100)],
                         [sku |-> "A", date |-> Month(2024, 11), vol |-> Num(100)]>>
    /\ Len(result.rows) = 3
    /\ result.rows[2]["sku"] = "A"
    /\ result.rows[2]["prev_volume"] = Num(100)
    /\ result.rows[2]["delta"] = Num(50)

\* C16: the row of the first period of every sku has null prev_volume,
\* delta and pct_change, and every other row has a non-null prev_volume
\* (100 in one quarter and 150 in the next give delta 50, pct_change 50).
C16_FirstPeriodIsNull ==
    (Called("churn_report") /\ raised = "") =>
        \A j \in DOMAIN result.rows :
            LET row == result.rows[j]
            IN IF EarlierPeriods(row["sku"], row["period"]) = {}
               THEN isna(row["prev_volume"]) /\ isna(row["delta"]) /\ isna(row["pct_change"])
               ELSE ~isna(row["prev_volume"]) /\ ~isna(row["delta"])

C16_Witness ==
    /\ Called("churn_report")
    /\ raised = ""
    /\ freq = "Q"
    /\ order_df.rows = <<[sku |-> "A", date |-> Month(2024, 12), vol |-> Num(100)],
                         [sku |-> "A", date |-> Month(2025, 1), vol |-> Num(150)]>>
    /\ Len(result.rows) = 2
    /\ isna(result.rows[1]["prev_volume"])
    /\ isna(result.rows[1]["delta"])
    /\ result.rows[2]["prev_volume"] = Num(100)
    /\ result.rows[2]["delta"] = Num(50)
    /\ result.rows[2]["pct_change"] = Num(50)

\* C17: the report has exactly one row per distinct (sku, period) pair of
\* the input (of its rows with a sku), carrying the sum of the volumes of
\* the pair, and the rows of a sku are in strictly increasing period order,
\* whatever the order of the input rows.
C17_OneRowPerPairInOrder ==
    (Called("churn_report") /\ raised = "") =>
        /\ \A k \in {"A", "B"} : \A p \in PresentPeriods(k, freq) :
              Cardinality({j \in DOMAIN result.rows :
                              result.rows[j]["sku"] = k /\ result.rows[j]["period"] = p}) = 1
        /\ \A j \in DOMAIN result.rows :
              /\ result.rows[j]["sku"] \in {"A", "B"}
              /\ result.rows[j]["period"] \in PresentPeriods(result.rows[j]["sku"], freq)
              /\ result.rows[j]["vol"]
                    = TotalOver(RowsOfPair(result.rows[j]["sku"], result.rows[j]["period"]), "vol")
        /\ \A i, j \in DOMAIN result.rows :
              (i < j /\ result.rows[i]["sku"] = result.rows[j]["sku"])
                  => result.rows[i]["period"] < result.rows[j]["period"]

\* two rows of sku A in 2024Q4 after one of January 2025: one row per
\* quarter, the earlier quarter first, with the sum 250
C17_Witness ==
    /\ Called("churn_report")
    /\ raised = ""
    /\ freq = "Q"
    /\ order_df.rows = <<[sku |-> "A", date |-> Month(2025, 1), vol |-> Num(100)],
                         [sku |-> "A", date |-> Month(2024, 11), vol |-> Num(100)],
                         [sku |-> "A", date |-> Month(2024, 12), vol |-> Num(150)]>>
    /\ Len(result.rows) = 2
    /\ result.rows[1]["period"] < result.rows[2]["period"]
    /\ result.rows[1]["vol"] = Num(250)

\* the periods of sku k, at granularity f, that lie between two present
\* periods and hold no row
AbsentPeriods(k, f) ==
    LET present == PresentPeriods(k, f)
    IN {p \in UNION {a..b : a \in present, b \in present} : p \notin present}

\* C18: the caller of churn_report can select a reindex mode, in which a
\* period absent from the data is filled with zero before the deltas are
\* computed: when a period of a sku is missing, some choice of the
\* arguments of churn_report returns a row of that sku and period with
\* volume zero.
C18_ReindexModeSelectable ==
    (Called("churn_report") /\ raised = "" /\ AbsentPeriods("A", freq) # {}) =>
        \E f \in Freqs :
            LET report == churn_report(order_df, "sku", "vol", "date", f)
            IN \E p \in AbsentPeriods("A", f) : \E j \in DOMAIN report.rows :
                  /\ report.rows[j]["sku"] = "A"
                  /\ report.rows[j]["period"] = p
                  /\ report.rows[j]["vol"] = Num(0)

\* whatever the arguments, the report has no row for an absent period
C18_AbsentPeriodsSkipped ==
    Called("churn_report") =>
        \A f \in Freqs :
            LET report == churn_report(order_df, "sku", "vol", "date", f)
            IN \A j \in DOMAIN report.rows :
                  report.rows[j]["period"] \in PresentPeriods(report.rows[j]["sku"], f)

(***************************************************************************)
(* Properties of the buyback impact.                                       *)
(***************************************************************************)
\* the input rows (by position) of sku k whose flag is true
FlaggedRowsOf(k) ==
    {i \in DOMAIN order_df.rows :
        order_df.rows[i]["sku"] = k /\ order_df.rows[i]["flag"] = "True"}

\* C19: buyback_impact aggregates only the rows whose flag is true: the
\* output has a row for exactly the skus with such a row, buyback_count is
\* their number, rev_impact and cost_impact are the sums over them (rows
\* with a false or null flag add nothing) and net_impact is rev_impact -
\* cost_impact.
C19_FlaggedRowsOnly ==
    Returned({"buyback_impact"}) =>
        /\ OutputKeys = {k \in {"A", "B"} : FlaggedRowsOf(k) # {}}
        /\ \A j \in DOMAIN result.rows :
              LET row == result.rows[j]
                  flagged == FlaggedRowsOf(row["sku"])
              IN /\ row["buyback_count"] = Cardinality(flagged)
                 /\ row["rev_impact"] = TotalOver(flagged, "rev")
                 /\ row["cost_impact"] = TotalOver(flagged, "cost")
                 /\ row["net_impact"] = Sub(row["rev_impact"], row["cost_impact"])

\* a flagged row of sku A with revenue 2 and cost 1 and a row with a
\* null or false flag: one output row, sku A, count 1, net impact 1
C19_Witness ==
    /\ Returned({"buyback_impact"})
    /\ Len(order_df.rows) = 2
    /\ order_df.rows[1] = [sku |-> "A", flag |-> "True", rev |-> Num(2), cost |-> Num(1)]
    /\ \/ order_df.rows[2] = [sku |-> "A", flag |-> NULL, rev |-> Num(2), cost |-> Num(1)]
       \/ order_df.rows[2] = [sku |-> "B", flag |-> "False", rev |-> Num(2), cost |-> Num(1)]
    /\ Len(result.rows) = 1
    /\ result.rows[1]["buyback_count"] = 1
    /\ result.rows[1]["net_impact"] = Num(1)

(***************************************************************************)
(* Properties of the calls on a table that lacks a column.                 *)
(***************************************************************************)
Transforms ==
    Aggregations \cup {"discounts_by_order", "qty_break_discounts",
                       "moving_avg_volume", "churn_report"}

\* the columns the column-name arguments of a call name
NamedColumns(name) ==
    CASE name = "sales_by_product" -> {"sku", "qty", "vol"}
      [] name = "moving_avg_volume" -> {"sku", "vol", "date"}
      [] name = "order_counts" -> {"sku", "order_id"}
      [] name = "avg_sales_price" -> {"sku", "rev", "qty"}
      [] name = "discounts_by_order" -> {"list_price", "unit_price", "order_id"}
      [] name = "qty_break_discounts" -> {"sku", "qty", "list_price", "unit_price"}
      [] name = "churn_report" -> {"sku", "vol", "date"}
      [] name = "avg_margin_by_product" -> {"sku", "rev", "cost"}
      [] name = "cogs_by_product" -> {"sku", "cost"}
      [] name = "cogs_breakdown_by_material" -> {"raw_material", "cogs_subtotal"}
      [] name = "buyback_impact" -> {"sku", "flag", "rev", "cost"}

\* the named columns a transform reads: all of them, but for the sku
\* column of qty_break_discounts
ColumnsRead(name) ==
    IF name = "qty_break_discounts" THEN NamedColumns(name) \ {"sku"}
    ELSE NamedColumns(name)

Lacks(names) == ~(names \subseteq Range(order_df.cols))

\* the table has a row, and a quantity in each row if it has quantities
WithQuantities ==
    /\ order_df.rows # <<>>
    /\ "qty" \in Range(order_df.cols) =>
          \A i \in DOMAIN order_df.rows : ~isna(order_df.rows[i]["qty"])

\* C20 as stated: every transform signals a usage error and returns no
\* table whenever a column named by one of its column-name arguments is
\* absent from the input table.  Stated for the tables that hold a row and
\* no null quantity.
C20_NamedColumnAbsentRaises ==
    (op \in Transforms /\ Lacks(NamedColumns(op)) /\ WithQuantities) =>
        (raised # "" /\ result = NoResult)

\* C20, amended: every transform raises KeyError and returns no table
\* whenever a column it reads is absent from the input table, and raises
\* no KeyError otherwise; qty_break_discounts never reads its sku column,
\* whose absence is not signalled.
C20_ColumnReadAbsentRaises ==
    op \in Transforms =>
        /\ Lacks(ColumnsRead(op)) => (raised = "KeyError" /\ result = NoResult)
        /\ ~Lacks(ColumnsRead(op)) => raised # "KeyError"

\* sales_by_product on a table of costs, and buyback_impact on a table of
\* sales: the call raises KeyError and returns nothing
C20_Witness ==
    /\ raised = "KeyError"
    /\ result = NoResult
    /\ Len(order_df.rows) = 2
    /\ \/ op = "sales_by_product" /\ order_df.cols = <<"sku", "cost">>
       \/ op = "buyback_impact" /\ order_df.cols = <<"sku", "qty", "vol">>

(***************************************************************************)
(* Properties of the calls on a table without rows.                        *)
(***************************************************************************)
\* the columns the documentation of a transform lists for its result
ExpectedColumns(name) ==
    CASE name = "sales_by_product" -> <<"sku", "total_units", "total_volume">>
      [] name = "moving_avg_volume" -> <<"sku", "date", "vol", "rolling_avg_volume">>
      [] name = "order_counts" -> <<"sku", "order_count">>
      [] name = "avg_sales_price" -> <<"sku", "avg_sales_price">>
      [] name = "discounts_by_order" -> <<"order_id", "discount_pct">>
      [] name = "qty_break_discounts" -> <<"qty_tier", "avg_discount">>
      [] name = "churn_report" ->
            <<"sku", "period", "vol", "prev_volume", "delta", "pct_change">>
      [] name = "avg_margin_by_product" -> <<"sku", "avg_margin_pct", "avg_margin_abs">>
      [] name = "cogs_by_product" -> <<"sku", "total_cogs">>
      [] name = "cogs_breakdown_by_material" -> <<"raw_material", "total_material_cogs">>
      [] name = "buyback_impact" ->
            <<"sku", "buyback_count", "rev_impact", "cost_impact", "net_impact">>

\* the call was made on a table without rows that has the columns it reads
CalledOnEmpty(names) ==
    /\ op \in names
    /\ order_df.rows = <<>>
    /\ ~Lacks(ColumnsRead(op))

\* C21: a transform given a table with zero rows and all required columns
\* returns, without raising, an empty table with the expected columns;
\* qty_break_discounts included.  (moving_avg_volume is left out of this
\* statement: its outcome on such a table is left open by the model.)
C21_EmptyTableGivesEmptyResult ==
    CalledOnEmpty(Transforms \ {"moving_avg_volume"}) =>
        (raised = "" /\ result = DataFrame(ExpectedColumns(op), <<>>))

\* the same holds of the transforms that take no maximum of a column
C21_EmptyTableOfGroupedTransforms ==
    CalledOnEmpty(Transforms \ {"moving_avg_volume", "qty_break_discounts"}) =>
        (raised = "" /\ result = DataFrame(ExpectedColumns(op), <<>>))

\* on a table without rows qty_break_discounts raises, or lists its tiers
\* without an average, when a threshold is given
C21_EmptyTableOfQuantities ==
    (CalledOnEmpty({"qty_break_discounts"}) /\ breaks # <<>>) =>
        \/ raised = "ValueError"
        \/ raised = "" /\ \A j \in DOMAIN result.rows : isna(result.rows[j]["avg_discount"])

(***************************************************************************)
(* Properties of the caller's arguments.                                   *)
(***************************************************************************)
\* C22: no transform mutates its input: across any call, returning or
\* raising, the caller's table keeps its columns, its rows, their order and
\* their values, and the caller's breaks list is unchanged.
C22_InputUnchanged == [][order_df' = order_df /\ breaks' = breaks]_vars

\* calls that wrote a helper column (qty_tier, period) or converted the
\* dates on their working table, the caller's table still as it was loaded
C22_Witness ==
    \/ /\ op = "qty_break_discounts"
       /\ raised = ""
       /\ breaks = <<2>>
       /\ local_df.cols = <<"qty", "list_price", "unit_price", "discount_pct", "qty_tier">>
       /\ order_df.cols = <<"qty", "list_price", "unit_price">>
       /\ Len(order_df.rows) = 2
    \/ /\ op \in {"churn_report", "moving_avg_volume"}
       /\ raised = ""
       /\ Len(order_df.rows) = 2
       /\ \A i \in DOMAIN order_df.rows : order_df.rows[i]["date"] \in RollDates
       /\ \A i \in DOMAIN local_df.rows : local_df.rows[i]["date"] \in Nat

(***************************************************************************)
(* Properties of the columns of the result.                                *)
(***************************************************************************)
\* C23: each transform returns exactly the columns its documentation
\* lists, for every input table, tables with additional columns included.
\* Stated for the tables that hold a row.
C23_DocumentedColumns ==
    (op \in Transforms /\ raised = "" /\ order_df.rows # <<>>) =>
        result.cols = ExpectedColumns(op)

\* the same holds of every transform but moving_avg_volume
C23_DocumentedColumnsOfOthers ==
    (op \in Transforms \ {"moving_avg_volume"} /\ raised = "") =>
        result.cols = ExpectedColumns(op)

\* moving_avg_volume returns the columns of its input and the rolling one
C23_ColumnsOfMovingAverage ==
    (op = "moving_avg_volume" /\ raised = "") =>
        result.cols = order_df.cols \o <<"rolling_avg_volume">>

KeyedAggregations == {"sales_by_product", "order_counts", "avg_sales_price",
                      "cogs_by_product"}

\* the input without its rows of a null key
WithoutNullKeys ==
    DataFrame(order_df.cols, SelectSeq(order_df.rows, LAMBDA r : r["sku"] # NULL))

\* the transform called, on another table
Recomputed(df) ==
    CASE op = "sales_by_product" -> sales_by_product(df, "sku", "qty", "vol")
      [] op = "order_counts" -> order_counts(df, "sku", "order_id")
      [] op = "avg_sales_price" -> avg_sales_price(df, "sku", "rev", "qty")
      [] op = "cogs_by_product" -> cogs_by_product(df, "sku", "cost")

\* C26: grouped aggregations drop the rows whose key is null: the output
\* has no row with a null key, and it is the output the input would give
\* with its null-key rows removed.
C26_NullKeysDropped ==
    Returned(KeyedAggregations) =>
        /\ NULL \notin OutputKeys
        /\ result = Recomputed(WithoutNullKeys)

\* a row of sku A and a row without a sku: the output is the row of A
C26_Witness ==
    /\ Returned(KeyedAggregations)
    /\ Len(order_df.rows) = 2
    /\ InputKeys = {"A", NULL}
    /\ OutputKeys = {"A"}
    /\ Len(result.rows) = 1


(***************************************************************************)
(* The tiers as a partition of the observed quantities.                    *)
(***************************************************************************)
\* the tiers (by position in bins) whose half-open interval holds q
TiersHolding(q) ==
    {t \in 1..(Len(bins) - 1) :
        ~isna(bins[t + 1]) /\ bins[t].n <= q /\ q < bins[t + 1].n}

\* the tiers (by position) whose label the working copy gives row i
TiersOfRow(i) == {t \in 1..(Len(bins) - 1) : TierOfRow(i) = LabelOfTier(t)}

\* the input rows whose quantity is a number that is at least zero
TierableRows ==
    {i \in DOMAIN order_df.rows :
        ~isna(order_df.rows[i]["qty"]) /\ order_df.rows[i]["qty"].n >= 0}

\* the tierable input rows whose quantity lies in the interval of tier t
RowsWithin(t) ==
    {i \in TierableRows : t \in TiersHolding(order_df.rows[i]["qty"].n)}

\* C27: whenever qty_break_discounts returns, every quantity from 0 to the
\* largest observed one lies in exactly one tier interval, every row with a
\* non-null quantity of at least zero carries the label of exactly that
\* tier, every row with a negative or null quantity carries no tier, and
\* each avg_discount of the output is the mean over the non-negative,
\* non-null rows of its interval only.
C27_TiersPartitionQuantities ==
    (Called("qty_break_discounts") /\ raised = "") =>
        /\ Quantities # {} =>
              \A q \in 0..MaxQuantity : Cardinality(TiersHolding(q)) = 1
        /\ \A i \in DOMAIN order_df.rows :
              IF i \in TierableRows
              THEN /\ Cardinality(TiersOfRow(i)) = 1
                   /\ TiersOfRow(i) = TiersHolding(order_df.rows[i]["qty"].n)
              ELSE /\ TiersOfRow(i) = {}
                   /\ TierOfRow(i) = NULL
        /\ \A j \in DOMAIN result.rows :
              \E t \in 1..(Len(bins) - 1) :
                  /\ result.rows[j]["qty_tier"] = LabelOfTier(t)
                  /\ LET avg == result.rows[j]["avg_discount"]
                     IN IF RowsWithin(t) = {} THEN isna(avg)
                        ELSE Mul(avg, Num(Cardinality(RowsWithin(t))))
                                = DiscountTotal(RowsWithin(t))

\* breaks [1] over a row of quantity -1 and a row of quantity 2: the first
\* row has no tier, the second is in [1, 3), and a listed first tier has no
\* average
C27_Witness ==
    /\ Called("qty_break_discounts")
    /\ raised = ""
    /\ breaks = <<1>>
    /\ Len(order_df.rows) = 2
    /\ order_df.rows[1]["qty"] = Num(-1)
    /\ order_df.rows[2] = [qty |-> Num(2), list_price |-> Num(4), unit_price |-> Num(1)]
    /\ bins = <<Num(0), Num(1), Num(3)>>
    /\ TierOfRow(1) = NULL
    /\ TierOfRow(2) = LabelOfTier(2)
    /\ Len(result.rows) = 2
    /\ isna(result.rows[1]["avg_discount"])
    /\ result.rows[2]["avg_discount"] = Rat(3, 4)


(***************************************************************************)
(* Properties of the Gradio dashboard.                                     *)
(***************************************************************************)
\* what a callback returns when it is the only one to run, in the state at
\* hand
Alone(fn, args) ==
    CASE fn = "executive_summary" ->
            executive_summary(args.categories, args.packaging_types, args.royalty_filter)
      [] fn = "sales_analysis" ->
            sales_analysis(args.categories, args.packaging_types, args.royalty_filter)
      [] fn = "invoice_analysis" -> invoice_analysis
      [] fn = "materials_analysis" -> materials_analysis
      [] fn = "cross_analysis" -> cross_analysis

Running == {i \in DOMAIN calls : calls[i].pc = "running"}

\* C24: whatever the interleaving of the steps of the five callbacks and
\* whatever their filter arguments, no step changes product_df, order_df,
\* invoice_df, materials_df or kpis, and every invocation returns what the
\* callback returns when it runs alone on these tables.
C24_CallbacksOnlyRead ==
    /\ [][<<product_df, order_df, invoice_df, materials_df, kpis>>'
            = <<product_df, order_df, invoice_df, materials_df, kpis>>]_vars
    /\ [](returned.fn # "none" =>
            [raised |-> returned.raised, value |-> returned.value]
                = Alone(returned.fn, returned.args))

\* executive_summary has returned with a category deselected while
\* sales_analysis and invoice_analysis, started before it returned, are
\* both under way on tables that have rows
C24_Witness ==
    /\ returned.fn = "executive_summary"
    /\ returned.raised = ""
    /\ Len(product_df.rows) = 2
    /\ Len(invoice_df.rows) = 2
    /\ \E i, j \in Running :
          /\ calls[i].fn = "sales_analysis"
          /\ calls[j].fn = "invoice_analysis"
          /\ calls[j].local # NoResult


\* the callbacks that take no input
Unfiltered == {"invoice_analysis", "materials_analysis", "cross_analysis"}

\* a step in which one of the filter components sends its change event
ChangeEvent == events >= 1 /\ events' = events + 1

\* an invocation of fn is queued or running
Pending(fn) == \E i \in DOMAIN calls : calls[i].fn = fn

\* a step in which invocation i returns, and the output components of its
\* callback take what the callback computes from the filter values the
\* invocation was queued with
Serves(i) ==
    /\ calls' = Remove(calls, i)
    /\ returned' = [fn |-> calls[i].fn, args |-> calls[i].args, raised |-> "",
                    value |-> Alone(calls[i].fn, calls[i].args).value]
    /\ outputs' = [outputs EXCEPT ![calls[i].fn] = Alone(calls[i].fn, calls[i].args).value]

\* C28: a change event of any of the three filter components queues
\* executive_summary and sales_analysis, both with the values the three
\* filters hold after the change, and queues nothing else; an invocation
\* leaves the queue only by returning, and then the outputs of its callback
\* show what the callback computes from the values it was queued with;
\* pending invocations of the two callbacks do return.  The outputs of
\* invoice_analysis, materials_analysis and cross_analysis are filled,
\* by the invocations of the load event, and never change afterwards.
C28_FilterChangeRecomputes ==
    /\ [][ChangeEvent =>
            /\ filters' # filters
            /\ calls' = calls \o <<Call("executive_summary", filters'),
                                   Call("sales_analysis", filters')>>]_vars
    /\ [][Len(calls') < Len(calls) => \E i \in DOMAIN calls : Serves(i)]_vars
    /\ \A fn \in Filtered : Pending(fn) ~> (returned.fn = fn /\ ~Pending(fn))
    /\ \A fn \in Unfiltered : (events = 1) ~> (outputs[fn] # Blank)
    /\ [][\A fn \in Unfiltered : outputs[fn] # Blank => outputs'[fn] = outputs[fn]]_vars

\* after the load, a change of the categories to "Oil" alone has been
\* served: the summary and the sales outputs are those of the new filter
\* values and differ from those of the load, the other three are filled
C28_Witness ==
    /\ events = 2
    /\ calls = <<>>
    /\ categories = {"Oil"}
    /\ packaging_types = {"Drum", "Pail"}
    /\ outputs.executive_summary
          = executive_summary(categories, packaging_types, royalty_filter).value
    /\ outputs.executive_summary
          # executive_summary({"Oil", "Grease"}, packaging_types, royalty_filter).value
    /\ outputs.sales_analysis
          = sales_analysis(categories, packaging_types, royalty_filter).value
    /\ outputs.sales_analysis
          # sales_analysis({"Oil", "Grease"}, packaging_types, royalty_filter).value
    /\ \A fn \in Unfiltered : outputs[fn] = Alone(fn, NoArgs).value



\* the state of the except branch: four empty tables and the zero KPIs
Fallback ==
    /\ product_df = NoResult
    /\ order_df = NoResult
    /\ invoice_df = NoResult
    /\ materials_df = NoResult
    /\ kpis = ZeroKpis

\* filter arguments a caller can pass, whether or not the dropdowns offer them
FilterArgs ==
    [categories : SUBSET {"Oil", "Grease"},
     packaging_types : SUBSET {"Drum", "Pail"},
     royalty_filter : {"All", "Royalty Only", "Non-Royalty Only"}]

\* C29 as stated: after a failed load, the summary that invoice_analysis
\* returns shows a collection rate of 0 and the one that cross_analysis
\* returns shows a conversion rate of 0.
C29_FallbackRatiosAreZero ==
    /\ (Fallback /\ returned.fn = "invoice_analysis") =>
          /\ returned.raised = ""
          /\ Len(returned.value.inv_summary) = 3
          /\ returned.value.inv_summary[3] = "0.0%"
    /\ (Fallback /\ returned.fn = "cross_analysis") =>
          /\ returned.raised = ""
          /\ Len(returned.value.cross_summary) = 3
          /\ returned.value.cross_summary[3] = "0.0%"

\* C29: after a failed load the four tables are empty and the KPIs zero, and
\* every callback returns without raising, whatever the filter arguments:
\* executive_summary a KPI block of zeros and no figure, sales_analysis no
\* figure and empty tables, invoice_analysis no figure and an empty summary
\* (no collection rate is computed), materials_analysis no figure and an
\* empty table, cross_analysis no figure and a summary of 0 orders, 0
\* invoices and a conversion rate of 0.0%; an invocation that has returned
\* returned exactly these values.
C29_FallbackReturnsEmpty ==
    Fallback =>
        /\ kpi_html(kpis)
              = <<"$0.00", "0.0%", "$0.00", "0", "$0.00", "$0.00", "$0.00", "0">>
        /\ \A a \in FilterArgs :
              /\ Alone("executive_summary", a)
                    = Ok([summary_kpis |-> kpi_html(ZeroKpis), summary_chart1 |-> None,
                          summary_chart2 |-> None])
              /\ Alone("sales_analysis", a)
                    = Ok([sales_chart1 |-> None, sales_table1 |-> NoResult,
                          sales_chart2 |-> None, sales_table2 |-> NoResult,
                          sales_chart3 |-> None])
        /\ invoice_analysis = Ok([inv_chart1 |-> None, inv_chart2 |-> None, inv_summary |-> <<>>])
        /\ materials_analysis
              = Ok([mat_chart1 |-> None, mat_table1 |-> NoResult, mat_chart2 |-> None,
                    mat_chart3 |-> None])
        /\ cross_analysis
              = Ok([cross_summary |-> <<"0", "0", "0.0%">>, cross_chart1 |-> None])
        /\ returned.fn # "none" =>
              /\ returned.raised = ""
              /\ returned.value = Alone(returned.fn, returned.args).value

\* after a failed load the five callbacks of the load event have returned,
\* cross_analysis last
C29_Witness ==
    /\ Fallback
    /\ returned.fn = "cross_analysis"
    /\ returned.value.cross_summary = <<"0", "0", "0.0%">>
    /\ \A fn \in Filtered \cup Unfiltered : outputs[fn] # Blank
    /\ outputs.invoice_analysis.inv_summary = <<>>



\* a product row passes the filters: an empty selection of categories or of
\* packaging types lets every row pass
Kept(r, a) ==
    /\ a.categories = {} \/ r["Category__c"] \in a.categories
    /\ a.packaging_types = {} \/ r["Packaging_Type__c"] \in a.packaging_types
    /\ a.royalty_filter = "Royalty Only" => r["Royalty__c"] = "True"
    /\ a.royalty_filter = "Non-Royalty Only" => r["Royalty__c"] = "False"

\* C30: the KPI block of executive_summary is the same for all filter
\* arguments: it shows the kpis of the module, which after a load are those
\* of calculate_kpis over the whole tables.  So is the invoice status chart.
\* The category chart is the one of the product rows that pass the filters,
\* and with no category and no packaging type selected and the royalty
\* filter on "All" these are all the rows.  This is stated of the tables
\* and kpis as they are when the page starts; an executive_summary that
\* returns later returns the block of these kpis and what the callback
\* computes from its arguments on the tables of that moment.
C30_KpisIgnoreFilters ==
    /\ events = 0 =>
          /\ ~Fallback => kpis = calculate_kpis(product_df, order_df, invoice_df, materials_df)
          /\ \A a \in FilterArgs :
                LET shown == Alone("executive_summary", a)
                    kept == DataFrame(product_df.cols,
                                      SelectSeq(product_df.rows, LAMBDA r : Kept(r, a)))
                IN /\ shown.raised = ""
                   /\ shown.value.summary_kpis = kpi_html(kpis)
                   /\ shown.value.summary_chart2
                         = Alone("executive_summary", NoArgs).value.summary_chart2
                   /\ shown.value.summary_chart1
                         = IF empty(kept) THEN None
                           ELSE Figure("pie", value_counts(Column(kept.rows, "Category__c")))
          /\ \A a \in FilterArgs :
                (a.categories = {} /\ a.packaging_types = {} /\ a.royalty_filter = "All") =>
                    filter_products(product_df, a.categories, a.packaging_types,
                                    a.royalty_filter) = product_df
    /\ returned.fn = "executive_summary" =>
          /\ returned.raised = ""
          /\ returned.value.summary_kpis = kpi_html(kpis)
          /\ returned.value = Alone("executive_summary", returned.args).value

\* executive_summary has returned for the category "Oil" alone on products
\* of two categories: its category chart is not the one of all products,
\* and the KPIs of the selected products alone would not be the ones shown
C30_Witness ==
    /\ returned.fn = "executive_summary"
    /\ returned.args.categories = {"Oil"}
    /\ Len(product_df.rows) = 2
    /\ returned.value.summary_chart1
          # Alone("executive_summary", NoArgs).value.summary_chart1
    /\ returned.value.summary_kpis = Alone("executive_summary", NoArgs).value.summary_kpis
    /\ kpi_html(kpis_of_selection(filter_products(product_df, {"Oil"}, {}, "All"))) # returned.value.summary_kpis
====
